---- MODULE Spec2Model ----
(***************************************************************************)
(* Model of the calorie counter of Samaanai_Streamlit: the relational      *)
(* store behind db.py (health_calorie_intake, health_meal_details,         *)
(* health_weight_loss_goal), the Thursday-to-Wednesday period of           *)
(* allpages/utils.py and one run of allpages/calorie_counter.py per        *)
(* action (Streamlit reruns the whole script on every interaction).        *)
(*                                                                         *)
(* Dates are proleptic Gregorian ordinals (Python's date.toordinal()), so  *)
(* timedelta(days = n) is + n. Decimal quantities entered with step 0.1    *)
(* (weight, goal lbs/week) are held in tenths. An optional value (SQL NULL *)
(* or Python None) is the empty sequence, a present one is <<v>>.          *)
(***************************************************************************)
EXTENDS Integers, Sequences, FiniteSets, TLC

VARIABLES
    health_calorie_intake,    \* rows [id, date, exercise, weight]
    intake_id_seq,            \* last value of the SERIAL sequence of health_calorie_intake.id
    health_meal_details,      \* rows [calorie_intake_id, meal_type, calories]
    health_weight_loss_goal,  \* rows [id, goal_lbs_per_week, start_date, end_date, rmr]
    today,                    \* date.today()
    view_option,              \* the "Select Time Range" selectbox (widget state of the session)
    ui,                       \* what the last run of the page did and displayed
    other_session,            \* the 'Save Daily Data' run a second browser session is in
    stocks,                   \* rows of the stocks table
    stocks_id_seq,            \* last value of the SERIAL sequence of stocks.id
    session_state,            \* st.session_state of the browser session on the E*TRADE page
    etrade                    \* the E*TRADE side: credentials configured, request tokens
                              \* issued (those of the current browser session apart),
                              \* tokens the user authorised, the link last followed

vars == <<health_calorie_intake, intake_id_seq, health_meal_details,
          health_weight_loss_goal, today, view_option, ui, other_session,
          stocks, stocks_id_seq, session_state, etrade>>

\* What the calorie counter never touches.
others == <<stocks, stocks_id_seq, session_state, etrade>>

None == <<>>
Some(v) == <<v>>

----------------------------------------------------------------------------
(* Bounds of the model and program constants.                              *)

\* 2024-06-03 (a Monday), the first date the bounded inputs use.
FirstDate == 739040
\* 2000-01-01, the start of the "All Time" range.
AllTimeStart == 730120
\* Number of consecutive days the clock walks over in SpecRange.
NumDays == 35
\* Largest id the SERIAL sequence of health_calorie_intake hands out.
MaxId == 2
\* Largest number of rows of health_weight_loss_goal.
MaxGoals == 2
\* Default resting metabolic rate of the page.
DefaultRmr == 1843
\* Default weight (lbs, in tenths) of the page.
DefaultWeight == 1500

\* The forms a user submits with 'Save Daily Data': Thu 2024-06-06 (the
\* first day of the period of 2024-06-10) filled in two ways, Mon 2024-06-10
\* and Mon 2024-06-03 (in the period before).
SaveInputs ==
    {[intake_date |-> FirstDate + 3, exercise |-> 200, weight |-> DefaultWeight,
      meals |-> <<300, 500, 600, 0>>],
     [intake_date |-> FirstDate + 3, exercise |-> 0, weight |-> 1512,
      meals |-> <<0, 0, 0, 100>>],
     [intake_date |-> FirstDate + 7, exercise |-> 200, weight |-> DefaultWeight,
      meals |-> <<100, 0, 0, 100>>],
     [intake_date |-> FirstDate, exercise |-> 0, weight |-> 1512,
      meals |-> <<300, 0, 0, 100>>]}
\* The two of them used where the stored days are not the subject: net
\* calories 1200 on 2024-06-06 and 0 on 2024-06-10.
BasicSaveInputs ==
    {in \in SaveInputs : in.exercise = 200}
\* The forms a user submits with 'Set Goal'.
GoalInputs ==
    {[goal_lbs_per_week |-> 20, goal_start_date |-> FirstDate + 3,
      rmr_value |-> DefaultRmr],
     [goal_lbs_per_week |-> 0, goal_start_date |-> FirstDate + 3,
      rmr_value |-> DefaultRmr],
     [goal_lbs_per_week |-> 20, goal_start_date |-> FirstDate, rmr_value |-> 0],
     [goal_lbs_per_week |-> 5, goal_start_date |-> FirstDate, rmr_value |-> 1500],
     [goal_lbs_per_week |-> 0, goal_start_date |-> FirstDate + 7, rmr_value |-> 0]}
\* Entries outside the limits of the 'Set Goal' widgets: 6.0 lbs/week, and
\* an RMR of -10.
OutOfRangeGoalInputs ==
    {[goal_lbs_per_week |-> 60, goal_start_date |-> FirstDate + 3,
      rmr_value |-> DefaultRmr],
     [goal_lbs_per_week |-> 20, goal_start_date |-> FirstDate + 3,
      rmr_value |-> 0 - 10]}
\* The bounds of the ranges get_calorie_data is called with directly.
QueryDates == {FirstDate - 1, FirstDate, FirstDate + 3, FirstDate + 5, FirstDate + 7}
\* The goals insert_weight_loss_goal is called with directly: Mon to Wed
\* 2024-06-03..05 twice (the same key with other values), open-ended from Thu
\* 2024-06-06 twice, Tue 2024-06-04 to Mon 2024-06-10 across both, and
\* open-ended from Mon 2024-06-03.
GoalCallInputs ==
    {[goal_lbs_per_week |-> 20, goal_start_date |-> FirstDate,
      rmr_value |-> DefaultRmr, end_date |-> Some(FirstDate + 2)],
     [goal_lbs_per_week |-> 10, goal_start_date |-> FirstDate,
      rmr_value |-> 1500, end_date |-> Some(FirstDate + 2)],
     [goal_lbs_per_week |-> 5, goal_start_date |-> FirstDate + 3,
      rmr_value |-> DefaultRmr, end_date |-> None],
     [goal_lbs_per_week |-> 20, goal_start_date |-> FirstDate + 3,
      rmr_value |-> 1500, end_date |-> None],
     [goal_lbs_per_week |-> 0, goal_start_date |-> FirstDate + 1,
      rmr_value |-> 0, end_date |-> Some(FirstDate + 7)],
     [goal_lbs_per_week |-> 15, goal_start_date |-> FirstDate,
      rmr_value |-> 1700, end_date |-> None]}
\* The dates get_weight_loss_goal_by_date and get_all_data_for_date are
\* called with directly.
TargetDates == {FirstDate - 1, FirstDate, FirstDate + 2, FirstDate + 3, FirstDate + 8}
ViewOptions == {"Today", "This Week", "Last Week", "All Time"}
MealTypes == {"breakfast", "lunch", "dinner", "snacks"}

----------------------------------------------------------------------------
(* allpages/utils.py                                                       *)

\* date.weekday(): Monday = 0 .. Sunday = 6 (ordinal 1, 0001-01-01, is a Monday).
weekday(d) == (d + 6) % 7

\* Mutant: the remainder left out, so Monday to Wednesday get the Thursday
\* after them.
get_range_no_remainder(ref_date) ==
    LET start_date == ref_date - (weekday(ref_date) - 3)
    IN  <<start_date, start_date + 6>>

\* Mutant: the period made eight days long.
get_range_eight_days(ref_date) ==
    LET start_date == ref_date - ((weekday(ref_date) - 3) % 7)
    IN  <<start_date, start_date + 7>>

get_thursday_to_wednesday_range(ref_date) ==
    LET ref_date_weekday == weekday(ref_date)
        days_since_thursday == (ref_date_weekday - 3) % 7
        start_date == ref_date - days_since_thursday
        end_date == start_date + 6
    IN  <<start_date, end_date>>

----------------------------------------------------------------------------
(* db.py: the tables and the statements run on them. Every function takes  *)
(* dberror: TRUE when its statement raises inside the transaction, in      *)
(* which case the transaction is rolled back and nothing is written.       *)

RECURSIVE SortByDate(_)
\* ORDER BY ci.date: the rows of a set as a sequence of ascending date.
SortByDate(rows) ==
    IF rows = {} THEN <<>>
    ELSE LET first == CHOOSE r \in rows : \A q \in rows : r.date <= q.date
         IN  <<first>> \o SortByDate(rows \ {first})

\* Mutant: a plain INSERT, without the ON CONFLICT (date) clause taking effect.
insert_calorie_data_plain(intake, seq, intake_date, exercise, weight, dberror) ==
    IF dberror
    THEN [intake |-> intake, seq |-> seq, ret |-> None]
    ELSE [intake |-> intake \cup {[id |-> seq + 1, date |-> intake_date,
                                   exercise |-> exercise, weight |-> weight]},
          seq |-> seq + 1, ret |-> Some(seq + 1)]

\* Mutant: the failed statement not rolled back, its row left in the table.
insert_calorie_data_no_rollback(intake, seq, intake_date, exercise, weight, dberror) ==
    LET conflict == {r \in intake : r.date = intake_date}
        updated == {[r EXCEPT !.exercise = exercise, !.weight = weight] :
                        r \in conflict}
        inserted == [id |-> seq + 1, date |-> intake_date,
                     exercise |-> exercise, weight |-> weight]
        written == IF conflict = {} THEN intake \cup {inserted}
                   ELSE (intake \ conflict) \cup updated
    IN  IF dberror
        THEN [intake |-> written, seq |-> seq + 1, ret |-> None]
        ELSE [intake |-> written, seq |-> seq + 1,
              ret |-> Some(IF conflict = {} THEN seq + 1
                           ELSE (CHOOSE r \in updated : TRUE).id)]

\* INSERT INTO health_calorie_intake ... ON CONFLICT (date) DO UPDATE ...
\* RETURNING id. The SERIAL default is drawn before the conflict is seen, so
\* the sequence advances on an update too. Returns the table, the sequence
\* and the returned id (None after an error).
insert_calorie_data(intake, seq, intake_date, exercise, weight, dberror) ==
    IF dberror
    THEN [intake |-> intake, seq |-> seq, ret |-> None]
    ELSE LET conflict == {r \in intake : r.date = intake_date}
             updated == {[r EXCEPT !.exercise = exercise, !.weight = weight] :
                             r \in conflict}
             inserted == [id |-> seq + 1, date |-> intake_date,
                          exercise |-> exercise, weight |-> weight]
         IN  IF conflict = {}
             THEN [intake |-> intake \cup {inserted}, seq |-> seq + 1,
                   ret |-> Some(seq + 1)]
             ELSE [intake |-> (intake \ conflict) \cup updated, seq |-> seq + 1,
                   ret |-> Some((CHOOSE r \in updated : TRUE).id)]

\* Mutant: a plain INSERT, every call adding a row.
insert_meal_details_plain(meals, intake, calorie_intake_id, meal_type, calories, dberror) ==
    IF dberror \/ ~(\E r \in intake : r.id = calorie_intake_id)
    THEN meals
    ELSE meals \cup {[calorie_intake_id |-> calorie_intake_id,
                      meal_type |-> meal_type, calories |-> calories]}

\* Mutant: ON CONFLICT ... DO NOTHING, the stored calories kept.
insert_meal_details_do_nothing(meals, intake, calorie_intake_id, meal_type, calories, dberror) ==
    IF \/ dberror
       \/ ~(\E r \in intake : r.id = calorie_intake_id)
       \/ \E m \in meals : /\ m.calorie_intake_id = calorie_intake_id
                           /\ m.meal_type = meal_type
    THEN meals
    ELSE meals \cup {[calorie_intake_id |-> calorie_intake_id,
                      meal_type |-> meal_type, calories |-> calories]}

\* INSERT INTO health_meal_details ... ON CONFLICT (calorie_intake_id,
\* meal_type) DO UPDATE SET calories = ... (protein, fiber and carbs are
\* always written as 0 by the page and are left out, as is the row's own id,
\* which no statement reads). An id that references no intake row violates
\* the foreign key: the statement raises and is rolled back. Returns the table.
insert_meal_details(meals, intake, calorie_intake_id, meal_type, calories, dberror) ==
    IF dberror \/ ~(\E r \in intake : r.id = calorie_intake_id)
    THEN meals
    ELSE LET conflict == {m \in meals : /\ m.calorie_intake_id = calorie_intake_id
                                        /\ m.meal_type = meal_type}
         IN  IF conflict = {}
             THEN meals \cup {[calorie_intake_id |-> calorie_intake_id,
                               meal_type |-> meal_type, calories |-> calories]}
             ELSE (meals \ conflict)
                      \cup {[m EXCEPT !.calories = calories] : m \in conflict}

\* INSERT INTO health_weight_loss_goal ... ON CONFLICT (start_date, end_date)
\* DO UPDATE. The table is kept in insertion order (its id is read by no
\* statement). UNIQUE(start_date, end_date) treats NULLs as distinct, so a row
\* whose end_date is NULL never conflicts with another. Returns the table.
insert_weight_loss_goal(goals, goal_lbs_per_week, start_date, rmr_value, end_date, dberror) ==
    IF dberror
    THEN goals
    ELSE LET conflict == {i \in DOMAIN goals : /\ end_date # None
                                               /\ goals[i].end_date = end_date
                                               /\ goals[i].start_date = start_date}
         IN  IF conflict = {}
             THEN Append(goals, [goal_lbs_per_week |-> goal_lbs_per_week,
                                 start_date |-> start_date,
                                 end_date |-> end_date,
                                 rmr |-> rmr_value])
             ELSE [i \in DOMAIN goals |->
                      IF i \in conflict
                      THEN [goals[i] EXCEPT !.goal_lbs_per_week = goal_lbs_per_week,
                                            !.rmr = rmr_value]
                      ELSE goals[i]]

\* The row the LEFT JOIN yields for an intake row without meal rows.
NullMeal(ci) == [calorie_intake_id |-> ci.id, meal_type |-> "NULL", calories |-> 0]

\* ci LEFT JOIN md ON ci.id = md.calorie_intake_id, for the intake rows of one group.
JoinedRows(group, meals) ==
    {<<ci, md>> \in group \X meals : md.calorie_intake_id = ci.id}
        \cup {<<ci, NullMeal(ci)>> : ci \in {c \in group :
                  ~(\E md \in meals : md.calorie_intake_id = c.id)}}

RECURSIVE SumCase(_, _)
\* SUM(CASE WHEN md.meal_type = :meal_type THEN md.calories ELSE 0 END)
SumCase(joined, meal_type) ==
    IF joined = {} THEN 0
    ELSE LET j == CHOOSE x \in joined : TRUE
         IN  (IF j[2].meal_type = meal_type THEN j[2].calories ELSE 0)
                 + SumCase(joined \ {j}, meal_type)

\* Mutant: the exercise calories added instead of subtracted.
TotalSumPlusExercise(row) ==
    row.breakfast_calories + row.lunch_calories + row.dinner_calories
        + row.snacks_calories + row.exercise_calories

\* df['Total Sum'] of one row.
TotalSum(row) ==
    row.breakfast_calories + row.lunch_calories + row.dinner_calories
        + row.snacks_calories - row.exercise_calories

\* Mutant: the end of the range excluded (ci.date < :end_date).
CalorieQueryOpenEnd(intake, meals, start_date, end_date) ==
    LET selected == {ci \in intake : ci.date >= start_date /\ ci.date < end_date}
    IN  SortByDate({[date |-> ci.date,
                     breakfast_calories |-> SumCase(JoinedRows({ci}, meals), "breakfast"),
                     lunch_calories |-> SumCase(JoinedRows({ci}, meals), "lunch"),
                     dinner_calories |-> SumCase(JoinedRows({ci}, meals), "dinner"),
                     snacks_calories |-> SumCase(JoinedRows({ci}, meals), "snacks"),
                     exercise_calories |-> ci.exercise] : ci \in selected})

\* Mutant: a range given backwards put in order before it is queried.
CalorieQuerySwapped(intake, meals, start_date, end_date) ==
    LET lo == IF end_date < start_date THEN end_date ELSE start_date
        hi == IF end_date < start_date THEN start_date ELSE end_date
        selected == {ci \in intake : ci.date >= lo /\ ci.date <= hi}
    IN  SortByDate({[date |-> ci.date,
                     breakfast_calories |-> SumCase(JoinedRows({ci}, meals), "breakfast"),
                     lunch_calories |-> SumCase(JoinedRows({ci}, meals), "lunch"),
                     dinner_calories |-> SumCase(JoinedRows({ci}, meals), "dinner"),
                     snacks_calories |-> SumCase(JoinedRows({ci}, meals), "snacks"),
                     exercise_calories |-> ci.exercise] : ci \in selected})

\* Mutant: the start of the range not applied (ci.date <= :end_date only).
CalorieQueryNoStart(intake, meals, start_date, end_date) ==
    LET selected == {ci \in intake : ci.date <= end_date}
    IN  SortByDate({[date |-> ci.date,
                     breakfast_calories |-> SumCase(JoinedRows({ci}, meals), "breakfast"),
                     lunch_calories |-> SumCase(JoinedRows({ci}, meals), "lunch"),
                     dinner_calories |-> SumCase(JoinedRows({ci}, meals), "dinner"),
                     snacks_calories |-> SumCase(JoinedRows({ci}, meals), "snacks"),
                     exercise_calories |-> ci.exercise] : ci \in selected})

\* The SELECT of get_calorie_data: one row per group (ci.date, ci.exercise)
\* of the intake rows with start_date <= date <= end_date.
CalorieQuery(intake, meals, start_date, end_date) ==
    LET selected == {ci \in intake : ci.date >= start_date /\ ci.date <= end_date}
        keys == {<<ci.date, ci.exercise>> : ci \in selected}
        GroupOf(k) == {ci \in selected : ci.date = k[1] /\ ci.exercise = k[2]}
        RowOf(k) ==
            LET joined == JoinedRows(GroupOf(k), meals)
            IN  [date |-> k[1],
                 breakfast_calories |-> SumCase(joined, "breakfast"),
                 lunch_calories |-> SumCase(joined, "lunch"),
                 dinner_calories |-> SumCase(joined, "dinner"),
                 snacks_calories |-> SumCase(joined, "snacks"),
                 exercise_calories |-> k[2]]
    IN  SortByDate({RowOf(k) : k \in keys})

\* Whether the query of get_calorie_data raises (and is logged).
CalorieQueryRaises(conn_open, dberror) == dberror \/ ~conn_open

\* get_calorie_data: the rows of the query with their 'Total Sum'; an empty
\* DataFrame when the query raises (a database error, or a connection that
\* is already closed).
get_calorie_data(intake, meals, conn_open, start_date, end_date, dberror) ==
    IF CalorieQueryRaises(conn_open, dberror)
    THEN <<>>
    ELSE LET rows == CalorieQuery(intake, meals, start_date, end_date)
         IN  [i \in DOMAIN rows |->
                 [date |-> rows[i].date,
                  breakfast_calories |-> rows[i].breakfast_calories,
                  lunch_calories |-> rows[i].lunch_calories,
                  dinner_calories |-> rows[i].dinner_calories,
                  snacks_calories |-> rows[i].snacks_calories,
                  exercise_calories |-> rows[i].exercise_calories,
                  Total_Sum |-> TotalSum(rows[i])]]

\* Mutant: the latest goal returned whether or not it has an end_date.
get_current_weight_loss_goal_any_end(goals, conn_open, dberror) ==
    LET latest == {i \in DOMAIN goals : \A j \in DOMAIN goals :
                       goals[j].start_date <= goals[i].start_date}
    IN  IF dberror \/ ~conn_open \/ latest = {}
        THEN {<<None, None, None, None>>}
        ELSE {<<Some(goals[i].goal_lbs_per_week), Some(goals[i].start_date),
                goals[i].end_date, Some(goals[i].rmr)>> : i \in latest}

\* get_current_weight_loss_goal: the values it may return, each
\* <<goal_lbs_per_week, start_date, end_date, rmr>>. WHERE end_date IS NULL
\* ORDER BY start_date DESC LIMIT 1 leaves the choice among rows of equal
\* start_date open. Without such a row, or on an error, it returns four Nones.
get_current_weight_loss_goal(goals, conn_open, dberror) ==
    LET open == {i \in DOMAIN goals : goals[i].end_date = None}
        latest == {i \in open : \A j \in open :
                       goals[j].start_date <= goals[i].start_date}
    IN  IF dberror \/ ~conn_open \/ latest = {}
        THEN {<<None, None, None, None>>}
        ELSE {<<Some(goals[i].goal_lbs_per_week), Some(goals[i].start_date),
                goals[i].end_date, Some(goals[i].rmr)>> : i \in latest}

\* Mutant: the end_date of a goal not looked at.
get_weight_loss_goal_by_date_any_end(goals, target_date, conn_open, dberror) ==
    LET applies == {i \in DOMAIN goals : goals[i].start_date <= target_date}
        latest == {i \in applies : \A j \in applies :
                       goals[j].start_date <= goals[i].start_date}
    IN  IF dberror \/ ~conn_open \/ latest = {}
        THEN {<<None, None>>}
        ELSE {<<Some(goals[i].goal_lbs_per_week), Some(goals[i].rmr)>> : i \in latest}

\* get_weight_loss_goal_by_date: the values it may return, each
\* <<goal_lbs_per_week, rmr>>. WHERE start_date <= :target_date AND (end_date
\* >= :target_date OR end_date IS NULL) ORDER BY start_date DESC LIMIT 1
\* leaves the choice among rows of equal start_date open. Without such a row,
\* or on an error, it returns two Nones.
get_weight_loss_goal_by_date(goals, target_date, conn_open, dberror) ==
    LET applies == {i \in DOMAIN goals :
                       /\ goals[i].start_date <= target_date
                       /\ \/ goals[i].end_date = None
                          \/ goals[i].end_date[1] >= target_date}
        latest == {i \in applies : \A j \in applies :
                       goals[j].start_date <= goals[i].start_date}
    IN  IF dberror \/ ~conn_open \/ latest = {}
        THEN {<<None, None>>}
        ELSE {<<Some(goals[i].goal_lbs_per_week), Some(goals[i].rmr)>> : i \in latest}

\* result.columns = [col[0] if isinstance(col, str) else col for col in
\* result.columns]: every column label of the pivoted frame is a str, and
\* col[0] of a str is its first character.
RenameColumn(col) ==
    CASE col = "exercise" -> "e"
      [] col = "weight" -> "w"
      [] col = "rmr" -> "r"
      [] col = "goal_lbs_per_week" -> "g"
      [] col = "breakfast" -> "b"
      [] col = "lunch" -> "l"
      [] col = "dinner" -> "d"
      [] col = "snacks" -> "s"

\* A row (a function of the column labels) under the new labels.
RenameColumns(row) ==
    [n \in {RenameColumn(c) : c \in DOMAIN row} |->
        row[CHOOSE c \in DOMAIN row : RenameColumn(c) = n]]

RECURSIVE SortKeys(_)
\* The (rmr, goal_lbs_per_week) keys of the pivoted index in its sorted order.
SortKeys(keys) ==
    IF keys = {} THEN <<>>
    ELSE LET first == CHOOSE a \in keys : \A b \in keys :
                          \/ a[1] = None
                          \/ a[1][1] < b[1][1]
                          \/ (a[1][1] = b[1][1] /\ a[2][1] <= b[2][1])
         IN  <<first>> \o SortKeys(keys \ {first})

\* get_all_data_for_date: the rows of the frame it returns, each a function
\* of the column labels. The SELECT yields one row per meal row and goal
\* row joined to the intake row of the date (date is UNIQUE), with NULLs
\* where a LEFT JOIN finds nothing. pivot_table(index = exercise, weight,
\* rmr, goal_lbs_per_week, columns = meal_type, values = calories,
\* fill_value = 0, dropna = False) has one row per combination of the values
\* of the index columns, 0 where the combination has no data; reset_index,
\* the 'snacks' column and the renaming of the columns follow. Whether a row
\* with a NULL key survives the pivot depends on the pandas installed
\* (keeps_null); where it does not, or a statement raises, the frame is empty.
get_all_data_for_date(intake, meals, goals, target_date, keeps_null, dberror) ==
    LET cis == {ci \in intake : ci.date = target_date}
    IN  IF dberror \/ cis = {}
        THEN <<>>
        ELSE LET ci == CHOOSE c \in cis : TRUE
                 mds == {md \in meals : md.calorie_intake_id = ci.id}
                 wlgs == {i \in DOMAIN goals :
                             /\ ci.date >= goals[i].start_date
                             /\ \/ goals[i].end_date = None
                                \/ ci.date <= goals[i].end_date[1]}
                 in_data == IF wlgs = {} THEN {<<None, None>>}
                            ELSE {<<Some(goals[i].rmr), Some(goals[i].goal_lbs_per_week)>> :
                                     i \in wlgs}
                 index == {k[1] : k \in in_data} \X {k[2] : k \in in_data}
                 keys == SortKeys(index)
                 columns == {"exercise", "weight", "rmr", "goal_lbs_per_week", "snacks"}
                                \cup {md.meal_type : md \in mds}
                 Calories(key, meal_type) ==
                     LET stored == {md \in mds : md.meal_type = meal_type}
                     IN  IF key \in in_data /\ stored # {}
                         THEN (CHOOSE md \in stored : TRUE).calories
                         ELSE 0
                 PivotRow(key) ==
                     [col \in columns |->
                         CASE col = "exercise" -> ci.exercise
                           [] col = "weight" -> ci.weight
                           [] col = "rmr" -> key[1]
                           [] col = "goal_lbs_per_week" -> key[2]
                           [] OTHER -> Calories(key, col)]
             IN  IF (mds = {} \/ wlgs = {}) /\ ~keeps_null
                 THEN <<>>
                 ELSE [k \in DOMAIN keys |-> RenameColumns(PivotRow(keys[k]))]

----------------------------------------------------------------------------
(* allpages/calorie_counter.py and app.py: one run of the script.          *)

\* What can fail in a run: get_db_connection() returning None at one of its
\* five call sites, or a statement raising inside a db.py function.
FaultNames == {"connect_app", "connect_page", "connect_save", "connect_goal",
               "connect_summary", "intake", "breakfast", "lunch", "dinner",
               "snacks", "goal_insert", "calorie_query", "goal_query"}
\* The failures of one run: none, one, or every meal upsert (the database
\* going away after the intake row was committed).
FaultSets ==
    {{}} \cup {{f} : f \in FaultNames}
        \cup {{"breakfast", "lunch", "dinner", "snacks"}}
\* The calls a run with this click can reach at all.
ReachableFaults(click) ==
    {"connect_app", "connect_page"} \cup
    CASE click = "save" -> {"connect_save", "intake", "breakfast", "lunch",
                            "dinner", "snacks"}
      [] click = "goal" -> {"connect_goal", "goal_insert"}
      [] OTHER -> {"connect_summary", "calorie_query", "goal_query"}
FaultsOf(click) == {f \in FaultSets : f \subseteq ReachableFaults(click)}

CouldNotConnect == "Could not connect to the database."
SavedMsg == "All data saved successfully!"
SaveFailedMsg == "Failed to save calorie intake data."
GoalSavedMsg == "Goal Data inserted successfully!"
NoDataMsg == "No data available for the selected period."
NoGoalMsg == "No weight loss goal set."

\* A run that has displayed nothing yet: the button that triggered it, the
\* messages shown, the errors logged (by the name of the failing call), the
\* form saved and the id it got, the goal set, date.today(), the range
\* queried, the DataFrame, the goal summary, the connections the run
\* opened and closed (by call site), the date of the "Date" widget (or the
\* target_date of a direct call), the values the six inputs are pre-filled
\* with, the value a function of db.py called directly returned, and the
\* save the other session was in when the run started.
BlankUi(click) ==
    [click |-> click, msgs |-> {}, errors |-> {}, saved |-> None,
     calorie_intake_id |-> None, goal_set |-> None, day |-> None,
     range |-> None, queried |-> FALSE, df |-> <<>>, summary |-> None,
     opened |-> {}, closed |-> {}, target_date |-> None, prefill |-> None,
     ret |-> None, concurrent |-> other_session]

\* Mutant: "Last Week" computed from today instead of today - 7 days.
SelectedRangeLastWeekOfToday(selected, day) ==
    LET this_week == get_thursday_to_wednesday_range(day)
    IN  CASE selected = "Today" -> <<day, day>>
          [] selected = "This Week" -> this_week
          [] selected = "Last Week" -> this_week
          [] OTHER -> <<AllTimeStart, day>>

\* if view_option == "Today": ... else: the range handed to get_calorie_data.
SelectedRange(selected, day) ==
    LET this_week == get_thursday_to_wednesday_range(day)
        last_week == get_thursday_to_wednesday_range(day - 7)
    IN  CASE selected = "Today" -> <<day, day>>
          [] selected = "This Week" -> this_week
          [] selected = "Last Week" -> last_week
          [] OTHER -> <<AllTimeStart, day>>

\* existing_data.get(col, pd.Series(default)).iloc[0]
GetFirst(existing_data, col, default) ==
    IF col \in DOMAIN existing_data[1] THEN existing_data[1][col] ELSE default

\* Lines 38-59: the value = each of the six number inputs is created with.
InputValues(existing_data) ==
    IF existing_data = <<>>
    THEN [weight |-> DefaultWeight, exercise |-> 0, meals |-> <<0, 0, 0, 0>>]
    ELSE [weight |-> GetFirst(existing_data, "weight", DefaultWeight),
          exercise |-> GetFirst(existing_data, "exercise", 0),
          meals |-> <<GetFirst(existing_data, "breakfast", 0),
                      GetFirst(existing_data, "lunch", 0),
                      GetFirst(existing_data, "dinner", 0),
                      GetFirst(existing_data, "snacks", 0)>>]

\* The 'Save Daily Data' branch on its fresh connection: the intake upsert,
\* then, if it returned an id, the four meal upserts and the success message.
SaveDailyData(intake, seq, meals, in, faults) ==
    LET r == insert_calorie_data(intake, seq, in.intake_date, in.exercise,
                                 in.weight, "intake" \in faults)
    IN  IF r.ret # None
        THEN LET id == r.ret[1]
                 m1 == insert_meal_details(meals, r.intake, id, "breakfast",
                                           in.meals[1], "breakfast" \in faults)
                 m2 == insert_meal_details(m1, r.intake, id, "lunch",
                                           in.meals[2], "lunch" \in faults)
                 m3 == insert_meal_details(m2, r.intake, id, "dinner",
                                           in.meals[3], "dinner" \in faults)
                 m4 == insert_meal_details(m3, r.intake, id, "snacks",
                                           in.meals[4], "snacks" \in faults)
             IN  [intake |-> r.intake, seq |-> r.seq, meals |-> m4,
                  ret |-> r.ret, msgs |-> {SavedMsg},
                  errors |-> faults \cap MealTypes]
        ELSE [intake |-> r.intake, seq |-> r.seq, meals |-> meals,
              ret |-> r.ret, msgs |-> {SaveFailedMsg}, errors |-> {"intake"}]

\* Mutant: the rate widget without its max_value.
GoalWidgetsNoMax(in) ==
    /\ 0 <= in.goal_lbs_per_week
    /\ 0 <= in.rmr_value

\* The values the widgets of the 'Set Goal' form can hold: number_input with
\* min_value = 0.0 and max_value = 5.0 for the rate, with min_value = 0 (and
\* no max_value) for the RMR.
GoalWidgets(in) ==
    /\ 0 <= in.goal_lbs_per_week /\ in.goal_lbs_per_week <= 50
    /\ 0 <= in.rmr_value

\* The 'Set Goal' branch: insert_weight_loss_goal without an end_date.
SetGoal(goals, in, faults) ==
    insert_weight_loss_goal(goals, in.goal_lbs_per_week, in.goal_start_date,
                            in.rmr_value, None, "goal_insert" \in faults)

RECURSIVE SumTotal(_)
\* df['Total Sum'].sum()
SumTotal(df) ==
    IF df = <<>> THEN 0 ELSE Head(df).Total_Sum + SumTotal(Tail(df))

\* Mutant: the daily target, not multiplied by the seven days.
DailyTargetCalories(current_rmr, current_goal) ==
    current_rmr - (current_goal * 500) \div 10

\* (current_rmr - (current_goal * 500)) * 7, current_goal in tenths of a pound.
WeeklyTargetCalories(current_rmr, current_goal) ==
    (current_rmr - (current_goal * 500) \div 10) * 7

\* Mutant: a total equal to the target counted as above it.
VerdictAtLeast(total_calories, weekly_target_calories) ==
    IF total_calories >= weekly_target_calories THEN "above" ELSE "below"

\* if total_calories > weekly_target_calories: "... above your target."
\* else: "... below your target."
Verdict(total_calories, weekly_target_calories) ==
    IF total_calories > weekly_target_calories THEN "above" ELSE "below"

\* The amount written with the verdict.
Amount(total_calories, weekly_target_calories) ==
    IF total_calories > weekly_target_calories
    THEN total_calories - weekly_target_calories
    ELSE weekly_target_calories - total_calories

\* Python's truth value of what get_current_weight_loss_goal returned: a Row
\* or a tuple is true unless it is empty.
Truthy(current_goal_data) == Len(current_goal_data) # 0

\* The goal summary (lines 151-192) for the non-empty df and the value
\* get_current_weight_loss_goal returned.
GoalSummary(df, current_goal_data) ==
    IF Truthy(current_goal_data)
    THEN LET current_goal == IF current_goal_data[1] # None
                             THEN current_goal_data[1][1] ELSE 0
             current_rmr == IF current_goal_data[4] # None
                            THEN current_goal_data[4][1] ELSE DefaultRmr
             goal_start == current_goal_data[2]
             weekly_target_calories == WeeklyTargetCalories(current_rmr, current_goal)
             total_calories == SumTotal(df)
         IN  [msgs |-> {},
              summary |-> Some([current_goal |-> current_goal,
                                current_rmr |-> current_rmr,
                                goal_start |-> goal_start,
                                weekly_target_calories |-> weekly_target_calories,
                                total_calories |-> total_calories,
                                verdict |-> Verdict(total_calories,
                                                    weekly_target_calories),
                                amount |-> Amount(total_calories,
                                                  weekly_target_calories)])]
    ELSE [msgs |-> {NoGoalMsg}, summary |-> None]

\* Lines 108-192 on the connection the local variable conn names at that
\* point: the range, get_calorie_data, conn.close(), the table and, for a
\* non-empty df, the goal summary on a connection of its own. The set of
\* displays the run can end with (one per value the goal query may return).
Progress(u, intake, meals, goals, conn, selected, day, faults) ==
    LET range == SelectedRange(selected, day)
        conn_open == conn \notin u.closed
        dberror == "calorie_query" \in faults
        df == get_calorie_data(intake, meals, conn_open, range[1], range[2], dberror)
        u1 == [u EXCEPT !.day = Some(day), !.range = Some(range),
                        !.queried = TRUE, !.df = df,
                        !.errors = @ \cup (IF CalorieQueryRaises(conn_open, dberror)
                                           THEN {"calorie_query"} ELSE {}),
                        !.closed = @ \cup {conn}]
    IN  IF df = <<>>
        THEN {[u1 EXCEPT !.msgs = @ \cup {NoDataMsg}]}
        ELSE IF "connect_summary" \in faults
        THEN {[u1 EXCEPT !.msgs = @ \cup {CouldNotConnect}]}
        ELSE {LET g == GoalSummary(df, current_goal_data)
              IN  [u1 EXCEPT !.msgs = @ \cup g.msgs, !.summary = g.summary,
                             !.errors = @ \cup (faults \cap {"goal_query"}),
                             !.opened = @ \cup {"summary"},
                             !.closed = @ \cup {"summary"}] :
                  current_goal_data \in
                      get_current_weight_loss_goal(goals, TRUE, "goal_query" \in faults)}

\* app.py lines 27-42 with the Calorie Counter page selected, and
\* calorie_counter_page: one run of the script. click is the button that
\* triggered the run ("date" for a change of the "Date" widget, "none" for
\* any other interaction), in the widget values the clicked branch reads.
\* The values the inputs are created with (lines 31-59) are recorded by the
\* runs the "Date" widget triggers.
calorie_counter_page(click, in, selected, faults) ==
    LET u0 == [BlankUi(click) EXCEPT !.opened = {"app", "page"}]
        unchanged_db == UNCHANGED <<health_calorie_intake, intake_id_seq,
                                    health_meal_details, health_weight_loss_goal>>
    IN  /\ today' = today
        /\ view_option' = selected
        /\ other_session' = other_session
        /\ UNCHANGED others
        /\ IF "connect_app" \in faults
           THEN /\ ui' = [BlankUi(click) EXCEPT !.msgs = {CouldNotConnect}]
                /\ unchanged_db
           ELSE IF "connect_page" \in faults
           THEN /\ ui' = [BlankUi(click) EXCEPT !.msgs = {CouldNotConnect},
                                               !.opened = {"app"}]
                /\ unchanged_db
           ELSE IF click = "save" /\ "connect_save" \in faults
           THEN /\ ui' = [u0 EXCEPT !.msgs = {CouldNotConnect}]
                /\ unchanged_db
           ELSE IF click = "goal" /\ "connect_goal" \in faults
           THEN /\ ui' = [u0 EXCEPT !.msgs = {CouldNotConnect}]
                /\ unchanged_db
           ELSE IF click = "save"
           THEN LET s == SaveDailyData(health_calorie_intake, intake_id_seq,
                                       health_meal_details, in, faults)
                    u == [u0 EXCEPT !.saved = Some(in),
                                    !.calorie_intake_id = s.ret,
                                    !.msgs = s.msgs,
                                    !.errors = s.errors,
                                    !.opened = @ \cup {"save"},
                                    !.closed = {"save"}]
                IN  /\ health_calorie_intake' = s.intake
                    /\ intake_id_seq' = s.seq
                    /\ health_meal_details' = s.meals
                    /\ UNCHANGED health_weight_loss_goal
                    /\ ui' \in Progress(u, s.intake, s.meals, health_weight_loss_goal,
                                        "save", selected, today, faults)
           ELSE IF click = "goal"
           THEN LET goals == SetGoal(health_weight_loss_goal, in, faults)
                    u == [u0 EXCEPT !.goal_set = Some(in),
                                    !.msgs = {GoalSavedMsg},
                                    !.errors = faults \cap {"goal_insert"},
                                    !.opened = @ \cup {"goal"},
                                    !.closed = {"goal"}]
                IN  /\ health_weight_loss_goal' = goals
                    /\ UNCHANGED <<health_calorie_intake, intake_id_seq,
                                   health_meal_details>>
                    /\ ui' \in Progress(u, health_calorie_intake, health_meal_details,
                                        goals, "goal", selected, today, faults)
           ELSE IF click = "date"
           THEN /\ unchanged_db
                /\ \E keeps_null \in BOOLEAN :
                       LET existing_data ==
                               get_all_data_for_date(health_calorie_intake,
                                                     health_meal_details,
                                                     health_weight_loss_goal,
                                                     in.intake_date, keeps_null, FALSE)
                           u == [u0 EXCEPT !.target_date = Some(in.intake_date),
                                           !.prefill = Some(InputValues(existing_data))]
                       IN  ui' \in Progress(u, health_calorie_intake,
                                            health_meal_details,
                                            health_weight_loss_goal, "page",
                                            selected, today, faults)
           ELSE /\ unchanged_db
                /\ ui' \in Progress(u0, health_calorie_intake, health_meal_details,
                                    health_weight_loss_goal, "page", selected,
                                    today, faults)

----------------------------------------------------------------------------
(* The specifications.                                                     *)

Init ==
    /\ health_calorie_intake = {}
    /\ intake_id_seq = 0
    /\ health_meal_details = {}
    /\ health_weight_loss_goal = <<>>
    /\ today = FirstDate + 7
    /\ view_option = "Today"
    /\ other_session = None
    /\ stocks = {}
    /\ stocks_id_seq = 0
    /\ session_state = <<>>
    /\ etrade = [configured |-> TRUE, issued |-> 0, session_tokens |-> {},
                 authorized |-> {}, followed |-> None]
    /\ ui = BlankUi("start")

\* A rerun without a button click: the time range (or another widget) changed.
RunView ==
    \E selected \in ViewOptions, faults \in FaultsOf("none") :
        calorie_counter_page("none", None, selected, faults)

\* A run triggered by 'Save Daily Data' with one of the forms, while the id
\* sequence is below max_id.
RunSave(forms, faultsets, max_id) ==
    /\ intake_id_seq < max_id
    /\ \E in \in forms, faults \in faultsets :
           calorie_counter_page("save", in, view_option, faults)

\* A run triggered by 'Set Goal'.
RunSetGoal ==
    /\ Len(health_weight_loss_goal) < MaxGoals
    /\ \E in \in {e \in GoalInputs \cup OutOfRangeGoalInputs : GoalWidgets(e)},
          faults \in FaultsOf("goal") :
           calorie_counter_page("goal", in, view_option, faults)

\* Saving and viewing the days, no goal being set.
Next ==
    \/ RunView
    \/ RunSave(SaveInputs, FaultsOf("save"), MaxId)

Spec == Init /\ [][Next]_vars

\* Setting goals, saving days that succeed, and viewing.
NextGoal ==
    \/ RunView
    \/ RunSave(BasicSaveInputs, {{}}, MaxId)
    \/ RunSetGoal

SpecGoal == Init /\ [][NextGoal]_vars

\* get_calorie_data called directly, on an open connection, with any range.
CallGetCalorieData ==
    /\ \E start_date \in QueryDates, end_date \in QueryDates :
           ui' = [BlankUi("call") EXCEPT
                     !.range = Some(<<start_date, end_date>>),
                     !.queried = TRUE,
                     !.df = get_calorie_data(health_calorie_intake,
                                             health_meal_details, TRUE,
                                             start_date, end_date, FALSE)]
    /\ UNCHANGED <<health_calorie_intake, intake_id_seq, health_meal_details,
                   health_weight_loss_goal, today, view_option, other_session, others>>

\* The saves here all succeed, which leaves room for one more of them.
NextDb ==
    \/ RunSave(SaveInputs, {{}}, MaxId + 1)
    \/ CallGetCalorieData

\* The functions of db.py under the saves of the page.
SpecDb == Init /\ [][NextDb]_vars

\* insert_weight_loss_goal called directly, with or without an end_date.
CallInsertWeightLossGoal ==
    /\ Len(health_weight_loss_goal) < MaxGoals
    /\ \E in \in GoalCallInputs :
           /\ health_weight_loss_goal' =
                  insert_weight_loss_goal(health_weight_loss_goal,
                                          in.goal_lbs_per_week, in.goal_start_date,
                                          in.rmr_value, in.end_date, FALSE)
           /\ ui' = [BlankUi("insert_weight_loss_goal") EXCEPT !.goal_set = Some(in)]
    /\ UNCHANGED <<health_calorie_intake, intake_id_seq, health_meal_details,
                   today, view_option, other_session, others>>

\* get_weight_loss_goal_by_date called directly, on an open connection.
CallGetWeightLossGoalByDate ==
    /\ \E target_date \in TargetDates :
           \E ret \in get_weight_loss_goal_by_date(health_weight_loss_goal,
                                                   target_date, TRUE, FALSE) :
               ui' = [BlankUi("get_weight_loss_goal_by_date") EXCEPT
                         !.target_date = Some(target_date),
                         !.ret = Some(ret)]
    /\ UNCHANGED <<health_calorie_intake, intake_id_seq, health_meal_details,
                   health_weight_loss_goal, today, view_option, other_session, others>>

\* Mutant: the read of the current goal also ends the other open goals.
CallGetCurrentWeightLossGoalClosing ==
    /\ \E ret \in get_current_weight_loss_goal(health_weight_loss_goal, TRUE, FALSE) :
           /\ ui' = [BlankUi("get_current_weight_loss_goal") EXCEPT !.ret = Some(ret)]
           /\ \E keep \in DOMAIN health_weight_loss_goal \cup {0} :
                  health_weight_loss_goal' =
                      [i \in DOMAIN health_weight_loss_goal |->
                          IF i # keep /\ health_weight_loss_goal[i].end_date = None
                          THEN [health_weight_loss_goal[i] EXCEPT !.end_date = ret[2]]
                          ELSE health_weight_loss_goal[i]]
    /\ UNCHANGED <<health_calorie_intake, intake_id_seq, health_meal_details,
                   today, view_option, other_session, others>>

\* get_current_weight_loss_goal called directly, on an open connection.
CallGetCurrentWeightLossGoal ==
    /\ \E ret \in get_current_weight_loss_goal(health_weight_loss_goal, TRUE, FALSE) :
           ui' = [BlankUi("get_current_weight_loss_goal") EXCEPT !.ret = Some(ret)]
    /\ UNCHANGED <<health_calorie_intake, intake_id_seq, health_meal_details,
                   health_weight_loss_goal, today, view_option, other_session, others>>

\* get_all_data_for_date called directly, on an open connection.
CallGetAllDataForDate ==
    /\ \E target_date \in TargetDates, keeps_null \in BOOLEAN :
           ui' = [BlankUi("get_all_data_for_date") EXCEPT
                     !.target_date = Some(target_date),
                     !.ret = Some(get_all_data_for_date(health_calorie_intake,
                                                        health_meal_details,
                                                        health_weight_loss_goal,
                                                        target_date, keeps_null,
                                                        FALSE))]
    /\ UNCHANGED <<health_calorie_intake, intake_id_seq, health_meal_details,
                   health_weight_loss_goal, today, view_option, other_session, others>>

\* The functions of db.py called directly, goals with an end_date included.
NextCalls ==
    \/ RunSave(BasicSaveInputs, {{}}, MaxId)
    \/ CallInsertWeightLossGoal
    \/ CallGetCalorieData
    \/ CallGetAllDataForDate
    \/ CallGetCurrentWeightLossGoal
    \/ CallGetWeightLossGoalByDate

SpecCalls == Init /\ [][NextCalls]_vars

\* A rerun triggered by the "Date" widget: another date is selected.
RunDate ==
    \E in \in {[intake_date |-> d] : d \in {FirstDate + 3, FirstDate + 7}},
       faults \in FaultsOf("date") :
        calorie_counter_page("date", in, view_option, faults)

\* Saving the day 2024-06-06, setting goals and coming back to a date.
NextLoad ==
    \/ RunSave({in \in SaveInputs : in.intake_date = FirstDate + 3}, {{}}, MaxId)
    \/ RunSetGoal
    \/ RunDate

SpecLoad == Init /\ [][NextLoad]_vars

\* A second session clicks 'Save Daily Data': its run commits the intake
\* upsert (insert_calorie_data is a transaction of its own) and stands before
\* the first meal upsert. before is the row get_calorie_data had for the date
\* until then, kept for the properties.
OtherSaveBegin ==
    /\ other_session = None
    /\ intake_id_seq < MaxId
    /\ \E in \in SaveInputs :
           LET r == insert_calorie_data(health_calorie_intake, intake_id_seq,
                                        in.intake_date, in.exercise, in.weight, FALSE)
           IN  /\ health_calorie_intake' = r.intake
               /\ intake_id_seq' = r.seq
               /\ other_session' =
                      Some([in |-> in, calorie_intake_id |-> r.ret[1], done |-> 0,
                            before |-> get_calorie_data(health_calorie_intake,
                                                        health_meal_details, TRUE,
                                                        in.intake_date,
                                                        in.intake_date, FALSE)])
    /\ UNCHANGED <<health_meal_details, health_weight_loss_goal, today,
                   view_option, ui, others>>

\* The run of the second session commits its next meal upsert (each
\* insert_meal_details is a transaction of its own); after the fourth the run
\* is over.
OtherSaveMeal ==
    /\ other_session # None
    /\ LET o == other_session[1]
           k == o.done + 1
           meal_type == <<"breakfast", "lunch", "dinner", "snacks">>[k]
       IN  /\ health_meal_details' =
                  insert_meal_details(health_meal_details, health_calorie_intake,
                                      o.calorie_intake_id, meal_type,
                                      o.in.meals[k], FALSE)
           /\ other_session' = IF k = 4 THEN None
                               ELSE Some([o EXCEPT !.done = k])
    /\ UNCHANGED <<health_calorie_intake, intake_id_seq, health_weight_loss_goal,
                   today, view_option, ui, others>>

\* The page viewed in one session while another saves.
NextSessions ==
    \/ RunView
    \/ OtherSaveBegin
    \/ OtherSaveMeal

SpecSessions == Init /\ [][NextSessions]_vars

\* date.today() moves on to the next day.
Tick ==
    /\ today < FirstDate + 7 + NumDays
    /\ today' = today + 1
    /\ UNCHANGED <<health_calorie_intake, intake_id_seq, health_meal_details,
                   health_weight_loss_goal, view_option, ui, other_session, others>>

NextRange == Tick \/ RunView

\* The page over a stretch of days, for the properties of the date ranges.
SpecRange == Init /\ [][NextRange]_vars

----------------------------------------------------------------------------
(* The properties.                                                          *)

\* The run displayed a range computed from date.today().
RangeShown == ui.click = "none" /\ ui.range # None

\* C1: for every date d the period of d is (start, end) with end = start + 6
\* days, start <= d <= end and start a Thursday (weekday 3, Monday = 0); a
\* Thursday gives start = d, a Wednesday start = d - 6 and end = d, and
\* Monday 2024-06-10 gives 2024-06-06 .. 2024-06-12. Checked on the period
\* the page shows for "This Week" on every day the clock reaches.
C1_PeriodContainsDate ==
    (RangeShown /\ view_option = "This Week") =>
        LET d == ui.day[1]
            start == ui.range[1][1]
            end == ui.range[1][2]
        IN  /\ end = start + 6
            /\ start <= d /\ d <= end
            /\ weekday(start) = 3
            /\ (weekday(d) = 3 => start = d)
            /\ (weekday(d) = 2 => start = d - 6 /\ end = d)
            /\ (d = 739047 => start = 739043 /\ end = 739049)

\* The period of a Wednesday was shown: it started six days before.
C1_Witness ==
    /\ RangeShown /\ view_option = "This Week"
    /\ weekday(ui.day[1]) = 2
    /\ ui.range[1] = <<ui.day[1] - 6, ui.day[1]>>

\* C2: the period of d - 7 days is the period right before that of d: it
\* starts 7 days before start(d), ends the day before start(d), and shares
\* no date with the period of d. Checked on the period the page shows for
\* "Last Week" against the period of the same day.
C2_PrecedingPeriod ==
    (RangeShown /\ view_option = "Last Week") =>
        LET this == get_thursday_to_wednesday_range(ui.day[1])
            last == ui.range[1]
        IN  /\ last[1] = this[1] - 7
            /\ last[2] = this[1] - 1
            /\ (last[1]..last[2]) \cap (this[1]..this[2]) = {}

\* "Last Week" was shown on a Thursday: the seven days up to the day before.
C2_Witness ==
    /\ RangeShown /\ view_option = "Last Week"
    /\ weekday(ui.day[1]) = 3
    /\ ui.range[1] = <<ui.day[1] - 7, ui.day[1] - 1>>

\* get_calorie_data ran its query (it did not raise) in the last run or call.
QueryRan == ui.queried /\ "calorie_query" \notin ui.errors

\* The stored daily records with a date in the range queried.
RecordsInRange ==
    {r \in health_calorie_intake :
        ui.range[1][1] <= r.date /\ r.date <= ui.range[1][2]}

\* C3: get_calorie_data(conn, a, b) returns exactly one row for each stored
\* record whose date lies in [a, b], no row for any other date, and the rows
\* in ascending date order.
C3_RowsAreRecordsInRange ==
    QueryRan =>
        /\ \A r \in RecordsInRange :
               Cardinality({i \in DOMAIN ui.df : ui.df[i].date = r.date}) = 1
        /\ \A i \in DOMAIN ui.df :
               \E r \in RecordsInRange : r.date = ui.df[i].date
        /\ \A i, j \in DOMAIN ui.df : i < j => ui.df[i].date < ui.df[j].date

\* A call whose range holds two of three stored records, returned in order.
C3_Witness ==
    /\ ui.click = "call"
    /\ Cardinality(health_calorie_intake) = 3
    /\ Len(ui.df) = 2
    /\ ui.df[1].date < ui.df[2].date

\* The calories stored for a meal type of a record, 0 without an entry.
StoredCalories(r, meal_type) ==
    LET entries == {m \in health_meal_details :
                        m.calorie_intake_id = r.id /\ m.meal_type = meal_type}
    IN  IF entries = {} THEN 0 ELSE (CHOOSE m \in entries : TRUE).calories

\* C4: in every row get_calorie_data returns, 'Total Sum' is breakfast +
\* lunch + dinner + snacks calories minus the exercise calories of the record
\* of that date, a meal type without a stored entry counting as 0.
C4_TotalSumIsNetCalories ==
    QueryRan =>
        \A i \in DOMAIN ui.df :
            \E r \in health_calorie_intake :
                /\ r.date = ui.df[i].date
                /\ ui.df[i].Total_Sum =
                       StoredCalories(r, "breakfast") + StoredCalories(r, "lunch")
                           + StoredCalories(r, "dinner") + StoredCalories(r, "snacks")
                           - r.exercise

\* The row of a record without a snacks entry: 300 + 500 + 600 + 0 - 200 = 1200.
C4_Witness ==
    /\ QueryRan
    /\ \E i \in DOMAIN ui.df :
           /\ ui.df[i].Total_Sum = 1200
           /\ ui.df[i].breakfast_calories = 300
           /\ ui.df[i].exercise_calories = 200
           /\ \E r \in health_calorie_intake :
                  /\ r.date = ui.df[i].date
                  /\ ~(\E m \in health_meal_details :
                          m.calorie_intake_id = r.id /\ m.meal_type = "snacks")

\* The rows of health_weight_loss_goal whose end_date is NULL.
OpenGoals == {i \in DOMAIN health_weight_loss_goal :
                 health_weight_loss_goal[i].end_date = None}

\* The run got as far as evaluating the goal (lines 144-192).
GoalEvaluated == "summary" \in ui.opened

\* C5: with no current goal stored (no goal with a NULL end_date), the goal
\* evaluation of the page reports "No weight loss goal set." and shows no
\* numeric weekly target or surplus/deficit.
C5_NoGoalReported ==
    (GoalEvaluated /\ OpenGoals = {}) =>
        (NoGoalMsg \in ui.msgs /\ ui.summary = None)

\* C6: after any sequence of 'Set Goal' operations at most one stored goal
\* has a NULL end_date.
C6_AtMostOneOpenGoal == Cardinality(OpenGoals) <= 1

\* The goal summary is shown and the goal query behind it did not fail.
GoalShown ==
    /\ ui.summary # None
    /\ "goal_query" \notin ui.errors
    /\ OpenGoals # {}

\* C7: whenever the goal summary is shown for a current goal with rate r
\* lbs/week and resting metabolic rate m, the weekly target displayed is
\* (m - r * 500) * 7 (r is stored in tenths, so both sides are taken times 10).
C7_WeeklyTarget ==
    GoalShown =>
        \E i \in OpenGoals :
            LET g == health_weight_loss_goal[i]
                shown == ui.summary[1]
            IN  /\ shown.current_goal = g.goal_lbs_per_week
                /\ shown.current_rmr = g.rmr
                /\ 10 * shown.weekly_target_calories
                       = (10 * g.rmr - g.goal_lbs_per_week * 500) * 7

\* The summary of the goal of 2.0 lbs/week with RMR 1843: 5901.
C7_Witness ==
    /\ GoalShown
    /\ ui.summary[1].current_goal = 20
    /\ ui.summary[1].current_rmr = 1843
    /\ ui.summary[1].weekly_target_calories = 5901

RECURSIVE TotalActual(_, _)
\* The sum of 'Total Sum' over the first n rows of df.
TotalActual(df, n) ==
    IF n = 0 THEN 0 ELSE df[n].Total_Sum + TotalActual(df, n - 1)

\* C8: with total_actual the sum of 'Total Sum' over the rows of the range
\* and delta = total_actual - weekly_target, the summary says "above" exactly
\* when delta > 0, "below" when delta < 0, and the amount is |delta|.
C8_AboveOrBelowTarget ==
    ui.summary # None =>
        LET shown == ui.summary[1]
            total_actual == TotalActual(ui.df, Len(ui.df))
            delta == total_actual - shown.weekly_target_calories
        IN  /\ shown.total_calories = total_actual
            /\ (shown.verdict = "above" <=> delta > 0)
            /\ (delta < 0 => shown.verdict = "below")
            /\ shown.amount = (IF delta >= 0 THEN delta ELSE 0 - delta)

\* Two days with 1200 net calories in all against the target 0 of a goal
\* with rate 0 and RMR 0: 1200 above.
C8_Witness ==
    /\ ui.summary # None
    /\ OpenGoals # {}
    /\ Len(ui.df) = 2
    /\ ui.summary[1].total_calories = 1200
    /\ ui.summary[1].weekly_target_calories = 0
    /\ ui.summary[1].verdict = "above"
    /\ ui.summary[1].amount = 1200

\* C9: after any sequence of 'Save Daily Data' operations the store holds
\* at most one daily record per calendar date.
C9_OneRecordPerDate ==
    \A r, q \in health_calorie_intake : r.date = q.date => r = q

\* Two saves went to the same date and left one record.
C9_Witness ==
    /\ intake_id_seq = 2
    /\ Cardinality(health_calorie_intake) = 1
    /\ ui.click = "save"

\* The last run saved the intake row and its four meal rows without an error.
SaveSucceeded(u) ==
    /\ u.click = "save"
    /\ SavedMsg \in u.msgs
    /\ u.errors \cap (MealTypes \cup {"intake"}) = {}

\* The record holds the values of the form, with one meal row per meal type.
HoldsForm(r, meals, in) ==
    /\ r.exercise = in.exercise
    /\ r.weight = in.weight
    /\ \A k \in 1..4 :
           LET meal_type == <<"breakfast", "lunch", "dinner", "snacks">>[k]
           IN  {m.calories : m \in {x \in meals :
                                       /\ x.calorie_intake_id = r.id
                                       /\ x.meal_type = meal_type}}
                   = {in.meals[k]}

\* A step that saves a form for a date that already has a record.
C10_Step ==
    (SaveSucceeded(ui') /\ \E o \in health_calorie_intake :
                               o.date = ui'.saved[1].intake_date) =>
        LET in == ui'.saved[1]
            old == {r \in health_calorie_intake : r.date = in.intake_date}
            new == {r \in health_calorie_intake' : r.date = in.intake_date}
        IN  /\ new # {}
            /\ \A r \in new :
                   /\ \A o \in old : r.id = o.id
                   /\ HoldsForm(r, health_meal_details', in)
            /\ (SaveSucceeded(ui) /\ ui.saved = ui'.saved) =>
                   /\ health_calorie_intake' = health_calorie_intake
                   /\ health_meal_details' = health_meal_details

\* C10: saving daily data for a date that already has a record updates that
\* record (same id) so that its exercise, weight and four meal calories are
\* the values saved, and repeating the identical save leaves the intake and
\* meal rows exactly as they were after the first save.
C10_SaveUpdatesRecord == [][C10_Step]_vars

\* A save that returned the id of an older record.
C10_Witness ==
    /\ SaveSucceeded(ui)
    /\ ui.calorie_intake_id[1] < intake_id_seq
    /\ ui.saved[1].weight = 1512

\* C11: insert_weight_loss_goal for a (start_date, end_date) key that already
\* has a stored goal, a NULL end_date included, updates that goal instead of
\* adding a second one, so that no two stored goals share their key and an
\* identical 'Set Goal' repeated leaves the number of goals unchanged.
C11_GoalKeyUpserted ==
    \A i, j \in DOMAIN health_weight_loss_goal :
        (/\ health_weight_loss_goal[i].start_date = health_weight_loss_goal[j].start_date
         /\ health_weight_loss_goal[i].end_date = health_weight_loss_goal[j].end_date)
            => i = j

\* get_calorie_data was called directly with an end date before the start date.
BackwardsRangeCalled ==
    /\ ui.click = "call"
    /\ ui.queried
    /\ ui.range[1][2] < ui.range[1][1]

\* C12: when get_calorie_data is called with an end date that precedes the
\* start date, the invalid range is signalled as an error, so that the caller
\* can tell it from a valid range without records.
C12_InvalidRangeSignalled ==
    BackwardsRangeCalled => "calorie_query" \in ui.errors

\* C12, as the code has it: a call with an end date before the start date
\* returns the empty result of a range without records and logs no error; the
\* bounds are not swapped, records dated between them are not returned.
C12_BackwardsRangeIsEmpty ==
    BackwardsRangeCalled => (ui.df = <<>> /\ ui.errors = {})

\* A backwards range with a stored record between its bounds came back empty.
C12_Witness ==
    /\ BackwardsRangeCalled
    /\ \E r \in health_calorie_intake :
           ui.range[1][2] <= r.date /\ r.date <= ui.range[1][1]
    /\ ui.df = <<>>

\* C13: when no stored record has a date in the range queried,
\* get_calorie_data returns an empty result without raising, the total of net
\* calories is 0, and the page shows "No data available for the selected
\* period." and neither an error nor a goal summary.
C13_EmptyRangeIsNoData ==
    (ui.queried /\ RecordsInRange = {}) =>
        /\ ui.df = <<>>
        /\ SumTotal(ui.df) = 0
        /\ NoDataMsg \in ui.msgs
        /\ CouldNotConnect \notin ui.msgs
        /\ ui.summary = None
        /\ (ui.click = "none" /\ QueryRan) => ui.errors = {}

\* A view of a range without records while other days are stored.
C13_Witness ==
    /\ ui.click = "none"
    /\ QueryRan
    /\ health_calorie_intake # {}
    /\ RecordsInRange = {}
    /\ ui.msgs = {NoDataMsg}

\* get_weight_loss_goal_by_date was called directly for the date d.
GoalByDateCalled == ui.click = "get_weight_loss_goal_by_date"

\* The stored goals that apply on the date d: started on or before it, and
\* open-ended or ending on or after it.
GoalsApplying(d) ==
    {i \in DOMAIN health_weight_loss_goal :
        LET g == health_weight_loss_goal[i]
        IN  /\ g.start_date <= d
            /\ (g.end_date = None \/ g.end_date[1] >= d)}

\* C14: get_weight_loss_goal_by_date(conn, d) returns a goal only if that
\* goal started on or before d and is open-ended or ends on or after d;
\* whenever a stored goal satisfies this it returns one of them, one with
\* the latest start_date, and otherwise it reports that no goal applies.
C14_GoalByDate ==
    GoalByDateCalled =>
        LET d == ui.target_date[1]
            ret == ui.ret[1]
        IN  IF GoalsApplying(d) = {}
            THEN ret = <<None, None>>
            ELSE \E i \in GoalsApplying(d) :
                     /\ \A j \in GoalsApplying(d) :
                            health_weight_loss_goal[j].start_date
                                <= health_weight_loss_goal[i].start_date
                     /\ ret = <<Some(health_weight_loss_goal[i].goal_lbs_per_week),
                                Some(health_weight_loss_goal[i].rmr)>>

\* Called for 2024-06-06 with a goal that ended the day before and the
\* open-ended goal that starts on that day: the latter is returned.
C14_Witness ==
    /\ GoalByDateCalled
    /\ ui.target_date = Some(FirstDate + 3)
    /\ Len(health_weight_loss_goal) = 2
    /\ Cardinality(GoalsApplying(FirstDate + 3)) = 1
    /\ \E i \in DOMAIN health_weight_loss_goal :
           health_weight_loss_goal[i].end_date = Some(FirstDate + 2)
    /\ ui.ret = Some(<<Some(5), Some(DefaultRmr)>>)

\* The names under which the four read operations of db.py are called.
ReadCalls == {"call", "get_all_data_for_date", "get_current_weight_loss_goal",
              "get_weight_loss_goal_by_date"}

\* A call of a read operation leaves the three tables (and the id sequence)
\* as they were.
C15_Step ==
    ui'.click \in ReadCalls =>
        /\ health_calorie_intake' = health_calorie_intake
        /\ health_meal_details' = health_meal_details
        /\ health_weight_loss_goal' = health_weight_loss_goal
        /\ intake_id_seq' = intake_id_seq

\* C15: the read operations get_calorie_data, get_all_data_for_date,
\* get_current_weight_loss_goal and get_weight_loss_goal_by_date leave all
\* stored daily records, meal entries and goals unchanged.
C15_ReadsLeaveStoreUnchanged == [][C15_Step]_vars

\* The current goal was read from a store with a record, its meal rows and
\* two open-ended goals.
C15_Witness ==
    /\ ui.click = "get_current_weight_loss_goal"
    /\ ui.ret[1][1] # None
    /\ health_calorie_intake # {}
    /\ health_meal_details # {}
    /\ Cardinality(OpenGoals) = 2

\* C16: every goal the 'Set Goal' form can store has a rate within [0, 5]
\* lbs/week and a resting metabolic rate that is a positive integer (> 0).
C16_StoredGoalsValid ==
    \A i \in DOMAIN health_weight_loss_goal :
        /\ 0 <= health_weight_loss_goal[i].goal_lbs_per_week
        /\ health_weight_loss_goal[i].goal_lbs_per_week <= 50
        /\ health_weight_loss_goal[i].rmr \in Nat
        /\ health_weight_loss_goal[i].rmr > 0

\* C16, as the code has it: every goal the 'Set Goal' form can store has a
\* rate within [0, 5] lbs/week and a resting metabolic rate that is a
\* non-negative integer; an RMR of 0 is accepted.
C16_StoredGoalsWithinWidgets ==
    \A i \in DOMAIN health_weight_loss_goal :
        /\ 0 <= health_weight_loss_goal[i].goal_lbs_per_week
        /\ health_weight_loss_goal[i].goal_lbs_per_week <= 50
        /\ health_weight_loss_goal[i].rmr \in Nat

\* 'Set Goal' stored a goal with RMR 0 next to one with rate 2.0 and RMR 1843.
C16_Witness ==
    /\ ui.click = "goal"
    /\ ui.goal_set # None
    /\ \E i, j \in DOMAIN health_weight_loss_goal :
           /\ health_weight_loss_goal[i].rmr = 0
           /\ health_weight_loss_goal[j].rmr = DefaultRmr
           /\ health_weight_loss_goal[j].goal_lbs_per_week = 20

\* C17: in every run each database operation is issued on an open
\* connection; in a run in which 'Save Daily Data' or 'Set Goal' was clicked
\* the summary query runs (it does not fail on a closed connection) and
\* returns the stored rows of the range, the row just saved included.
C17_SummaryOnOpenConnection ==
    (ui.queried /\ ui.click \in {"save", "goal"}) =>
        /\ "calorie_query" \notin ui.errors
        /\ \A r \in RecordsInRange :
               \E i \in DOMAIN ui.df : ui.df[i].date = r.date

\* C19: "All data saved successfully!" is shown only if the intake row and all
\* four meal entries of the form were committed; if any meal upsert fails, the
\* success message is not shown.
C19_SuccessOnlyIfAllCommitted ==
    (ui.click = "save" /\ SavedMsg \in ui.msgs) =>
        /\ ui.errors \cap MealTypes = {}
        /\ \E r \in health_calorie_intake :
               /\ r.date = ui.saved[1].intake_date
               /\ HoldsForm(r, health_meal_details, ui.saved[1])

\* A step from a successful save for a date d to a run with d in the "Date"
\* widget that got as far as creating the six inputs.
C18_Step ==
    (/\ SaveSucceeded(ui)
     /\ ui'.click = "date"
     /\ ui'.prefill # None
     /\ ui'.target_date = Some(ui.saved[1].intake_date)) =>
        ui'.prefill = Some([weight |-> ui.saved[1].weight,
                            exercise |-> ui.saved[1].exercise,
                            meals |-> ui.saved[1].meals])

\* C18: after a successful 'Save Daily Data' for a date d with weight w,
\* exercise e and meal calories b, l, dn, s, the next run of the page with d
\* selected creates the six inputs with exactly those values (obtained from
\* get_all_data_for_date), not with the defaults 150.0 and 0.
C18_SaveThenLoad == [][C18_Step]_vars

\* The row get_calorie_data has for the date of a form once the form is saved.
RowOfForm(in) ==
    [date |-> in.intake_date,
     breakfast_calories |-> in.meals[1],
     lunch_calories |-> in.meals[2],
     dinner_calories |-> in.meals[3],
     snacks_calories |-> in.meals[4],
     exercise_calories |-> in.exercise,
     Total_Sum |-> in.meals[1] + in.meals[2] + in.meals[3] + in.meals[4]
                       - in.exercise]

\* C20: a summary read that interleaves with another session's 'Save Daily
\* Data' for a date of its range sees for that date either all the values from
\* before the save or all the values from after it, never a mixture.
C20_ConsistentSnapshot ==
    (/\ QueryRan
     /\ ui.concurrent # None
     /\ ui.range[1][1] <= ui.concurrent[1].in.intake_date
     /\ ui.concurrent[1].in.intake_date <= ui.range[1][2]) =>
        LET o == ui.concurrent[1]
            seen == {ui.df[i] : i \in {j \in DOMAIN ui.df :
                                          ui.df[j].date = o.in.intake_date}}
        IN  \/ seen = {o.before[i] : i \in DOMAIN o.before}
            \/ seen = {RowOfForm(o.in)}

\* C21: every database connection opened during one run of the application
\* with the Calorie Counter page selected (the one of app.py and each one
\* opened inside calorie_counter_page) has been closed by the time the run
\* ends, on every path through the page.
C21_ConnectionsClosed ==
    ui.click \in {"none", "save", "goal", "date"} => ui.opened \subseteq ui.closed

\* C22: for every value of today and every view option the range the page
\* queries has start <= end: "Today" is [today, today], "This Week" the
\* Thursday-to-Wednesday period containing today, "Last Week" the period
\* containing today - 7 days, which ends the day before "This Week" starts,
\* and "All Time" is [2000-01-01, today].
C22_QueriedRanges ==
    RangeShown =>
        LET d == ui.day[1]
            start == ui.range[1][1]
            end == ui.range[1][2]
            IsPeriod == weekday(start) = 3 /\ end = start + 6
        IN  /\ start <= end
            /\ ui.queried
            /\ view_option = "Today" => (start = d /\ end = d)
            /\ view_option = "This Week" => (IsPeriod /\ start <= d /\ d <= end)
            /\ view_option = "Last Week" =>
                   /\ IsPeriod
                   /\ start <= d - 7 /\ d - 7 <= end
                   /\ end + 1 <= d /\ d <= end + 7
            /\ view_option = "All Time" => (start = 730120 /\ end = d)

\* "Last Week" was queried on a Wednesday: the seven days that end a week
\* before.
C22_Witness ==
    /\ RangeShown /\ ui.queried
    /\ view_option = "Last Week"
    /\ weekday(ui.day[1]) = 2
    /\ ui.range[1] = <<ui.day[1] - 13, ui.day[1] - 7>>

\* get_current_weight_loss_goal was called directly.
CurrentGoalCalled == ui.click = "get_current_weight_loss_goal"

\* C23: get_current_weight_loss_goal returns a goal only if that goal's
\* end_date is NULL; when several open-ended goals are stored it returns the
\* one with the latest start_date, and a goal with an end_date is never
\* returned as the current goal (without an open-ended goal: four Nones).
C23_CurrentGoalIsOpen ==
    CurrentGoalCalled =>
        LET ret == ui.ret[1]
        IN  IF OpenGoals = {}
            THEN ret = <<None, None, None, None>>
            ELSE /\ ret[3] = None
                 /\ \E i \in OpenGoals :
                        LET g == health_weight_loss_goal[i]
                        IN  /\ \A j \in OpenGoals :
                                   health_weight_loss_goal[j].start_date <= g.start_date
                            /\ ret = <<Some(g.goal_lbs_per_week), Some(g.start_date),
                                       None, Some(g.rmr)>>

\* Called with an open-ended goal from 2024-06-03 and a goal from 2024-06-04
\* that has an end_date: the open-ended one is returned, though it started
\* earlier.
C23_Witness ==
    /\ CurrentGoalCalled
    /\ Len(health_weight_loss_goal) = 2
    /\ Cardinality(OpenGoals) = 1
    /\ \E i \in DOMAIN health_weight_loss_goal :
           /\ health_weight_loss_goal[i].end_date # None
           /\ health_weight_loss_goal[i].start_date = FirstDate + 1
    /\ ui.ret = Some(<<Some(15), Some(FirstDate), None, Some(1700)>>)

\* Called with two open-ended goals of different start_date: the later one.
C23_LatestOpenWitness ==
    /\ CurrentGoalCalled
    /\ Cardinality(OpenGoals) = 2
    /\ ui.ret = Some(<<Some(5), Some(FirstDate + 3), None, Some(DefaultRmr)>>)
    /\ \E i \in OpenGoals : health_weight_loss_goal[i].start_date = FirstDate

\* C24: after any sequence of 'Save Daily Data' operations each daily record
\* has at most one stored meal entry per meal type, every stored meal type is
\* one of breakfast, lunch, dinner, snacks, and every stored meal entry refers
\* to an existing daily record.
C24_MealEntries ==
    /\ \A m, n \in health_meal_details :
           (m.calorie_intake_id = n.calorie_intake_id /\ m.meal_type = n.meal_type)
               => m = n
    /\ \A m \in health_meal_details :
           /\ m.meal_type \in MealTypes
           /\ \E r \in health_calorie_intake : r.id = m.calorie_intake_id

\* The day 2024-06-06 saved twice with other calories: its record still has
\* four meal entries, those of the second form.
C24_Witness ==
    /\ ui.click = "save"
    /\ intake_id_seq = 2
    /\ ui.errors \cap (MealTypes \cup {"intake"}) = {}
    /\ \E r \in health_calorie_intake :
           /\ r.date = FirstDate + 3
           /\ r.id = 1
           /\ {<<m.meal_type, m.calories>> :
                   m \in {x \in health_meal_details : x.calorie_intake_id = r.id}}
                  = {<<"breakfast", 0>>, <<"lunch", 0>>, <<"dinner", 0>>,
                     <<"snacks", 100>>}

\* A run in which the intake upsert of 'Save Daily Data' raised a database error.
C25_Step ==
    (ui'.click = "save" /\ "intake" \in ui'.errors) =>
        /\ ui'.calorie_intake_id = None
        /\ health_calorie_intake' = health_calorie_intake
        /\ health_meal_details' = health_meal_details
        /\ SaveFailedMsg \in ui'.msgs
        /\ SavedMsg \notin ui'.msgs

\* C25: if insert_calorie_data fails with a database error during 'Save
\* Daily Data', it returns None, the stored daily records are unchanged, no
\* meal entry is written in that run, and the page shows "Failed to save
\* calorie intake data." instead of a success message.
C25_FailedIntakeUpsert == [][C25_Step]_vars

\* The intake upsert failed for a date that has a record with other values.
C25_Witness ==
    /\ ui.click = "save"
    /\ "intake" \in ui.errors
    /\ ui.msgs \cap {SaveFailedMsg, SavedMsg} = {SaveFailedMsg}
    /\ \E r \in health_calorie_intake :
           /\ r.date = ui.saved[1].intake_date
           /\ r.weight # ui.saved[1].weight
           /\ \E m \in health_meal_details : m.calorie_intake_id = r.id

(***************************************************************************)
(* The E*TRADE pages. A request token is a number, the n-th one the server *)
(* issued; its secret and the verification code E*TRADE shows the user who *)
(* follows its authorization link belong to that token alone. Text is a    *)
(* sequence of one-character strings.                                      *)
(***************************************************************************)
\* Request tokens a session may be issued in a checked run.
MaxTokens == 3

\* oauth_token_secret of the request token t.
Secret(t) == t + 100

\* The verification code E*TRADE displays once the user authorised token t.
Verifier(t) == <<"V", <<"0", "1", "2", "3", "4", "5", "6", "7", "8", "9">>[t + 1]>>

\* [a-zA-Z0-9]
Alnum ==
    {"a", "b", "c", "d", "e", "f", "g", "h", "i", "j", "k", "l", "m",
     "n", "o", "p", "q", "r", "s", "t", "u", "v", "w", "x", "y", "z",
     "A", "B", "C", "D", "E", "F", "G", "H", "I", "J", "K", "L", "M",
     "N", "O", "P", "Q", "R", "S", "T", "U", "V", "W", "X", "Y", "Z",
     "0", "1", "2", "3", "4", "5", "6", "7", "8", "9"}

IsAlnum(c) == c \in Alnum

\* re.sub(r"[^a-zA-Z0-9]", "", verification_code).strip()
Sanitize(verification_code) == SelectSeq(verification_code, IsAlnum)

\* What the user may have in the text input: nothing, characters that are
\* no code, a code E*TRADE never showed, or the code of the link they
\* followed, as shown or pasted with a blank and a dash around it.
VerificationTexts(e) ==
    {<<>>, <<" ", "-">>, <<"X", "9">>}
        \cup (IF e.followed = None THEN {}
              ELSE {Verifier(e.followed[1]),
                    <<" ">> \o Verifier(e.followed[1]) \o <<"-">>})

KeyNotSetMsg == "Consumer key or secret not set in environment variables."
CodeInvalidMsg == "Verification code invalid"
EnterVerificationMsg == "Please enter verification"
AuthSuccessMsg == "Authentication successful!"
AuthErrorMsg == "Authentication error"
CompleteAuthMsg == "Please complete authentication first."

OauthFaultSets == {{}, {"request_token"}, {"access_token"}}

EtradeClicks == {"none", "submit", "get_quote", "portfolio", "place_order"}

\* The access-token request: E*TRADE grants it for a request token whose
\* link the user authorised, signed with that token's secret and carrying
\* that token's verification code.
AccessTokenGranted(e, req, faults) ==
    /\ "access_token" \notin faults
    /\ req.token \in 1..e.issued
    /\ req.token \in e.authorized
    /\ req.secret = Secret(req.token)
    /\ req.verifier = Verifier(req.token)

\* The request-token request answered: the server issues its next token, to
\* the browser session whose run asked for it.
IssueRequestToken(e) ==
    [e EXCEPT !.issued = @ + 1, !.session_tokens = @ \cup {e.issued + 1}]

\* What one call of oauth() did: the session state and the server after it,
\* whether it requested a request token, the token in the authorization link
\* it displayed, the access-token request it made, and how it ended: "session"
\* (session, base_url), "none" (None, None) or "raised".
OauthBlank(ss, e) ==
    [session_state |-> ss, etrade |-> e, requested |-> FALSE, link |-> None,
     exchange |-> None, oauth |-> "none", msgs |-> {}]

\* Mutant: step 1 done in every run, whatever the session state holds.
NeedsRequestTokenAlways(ss) == TRUE

\* "request_token" not in st.session_state
NeedsRequestToken(ss) == "request_token" \notin DOMAIN ss

etrade_stocks_oauth(ss, e, click, verification_code, faults) ==
    IF ~e.configured
    THEN [OauthBlank(ss, e) EXCEPT !.msgs = {KeyNotSetMsg}]
    ELSE
    LET needs == NeedsRequestToken(ss)
        e1 == IF needs THEN IssueRequestToken(e) ELSE e
        ss1 == IF needs
               THEN [k \in DOMAIN ss \cup {"request_token", "request_token_secret"} |->
                        IF k = "request_token" THEN e1.issued
                        ELSE IF k = "request_token_secret" THEN Secret(e1.issued)
                        ELSE ss[k]]
               ELSE ss
        shown == [OauthBlank(ss1, e1) EXCEPT !.requested = needs,
                                             !.link = Some(ss1.request_token)]
        sanitized == Sanitize(verification_code)
        req == [token |-> ss1.request_token,
                secret |-> ss1.request_token_secret,
                verifier |-> sanitized]
    IN  IF needs /\ "request_token" \in faults
        THEN [OauthBlank(ss, e) EXCEPT !.requested = TRUE, !.oauth = "raised"]
        ELSE IF click # "submit" THEN shown
        ELSE IF verification_code = <<>>
        THEN [shown EXCEPT !.msgs = {EnterVerificationMsg}]
        ELSE IF sanitized = <<>>
        THEN [shown EXCEPT !.msgs = {CodeInvalidMsg}]
        ELSE IF AccessTokenGranted(e1, req, faults)
        THEN [shown EXCEPT !.exchange = Some(req), !.oauth = "session",
                           !.msgs = {AuthSuccessMsg}]
        ELSE [shown EXCEPT !.exchange = Some(req), !.msgs = {AuthErrorMsg}]

\* test_ruth.oauth: rauth's get_request_token in every call.
test_ruth_oauth(ss, e, click, verification_code, faults) ==
    LET e1 == IssueRequestToken(e)
        request_token == e1.issued
        shown == [OauthBlank(ss, e1) EXCEPT !.requested = TRUE,
                                            !.link = Some(request_token)]
        sanitized == Sanitize(verification_code)
        req == [token |-> request_token, secret |-> Secret(request_token),
                verifier |-> sanitized]
    IN  IF ~e.configured \/ "request_token" \in faults
        THEN [OauthBlank(ss, e) EXCEPT !.requested = TRUE, !.oauth = "raised"]
        ELSE IF click # "submit" THEN shown
        ELSE IF verification_code = <<>>
        THEN [shown EXCEPT !.msgs = {"Please enter a verification code."}]
        ELSE IF sanitized = <<>>
        THEN [shown EXCEPT !.msgs = {"Verification code contained only invalid characters. Please try again."}]
        ELSE IF AccessTokenGranted(e1, req, faults)
        THEN [shown EXCEPT !.exchange = Some(req), !.oauth = "session",
                           !.msgs = {AuthSuccessMsg}]
        ELSE [shown EXCEPT !.exchange = Some(req), !.msgs = {AuthErrorMsg}]

\* etrade_python_client.oauth: the same without sanitising and without a
\* try around get_auth_session.
etrade_python_client_oauth(ss, e, click, verification_code, faults) ==
    LET e1 == IssueRequestToken(e)
        request_token == e1.issued
        shown == [OauthBlank(ss, e1) EXCEPT !.requested = TRUE,
                                            !.link = Some(request_token)]
        req == [token |-> request_token, secret |-> Secret(request_token),
                verifier |-> verification_code]
    IN  IF ~e.configured
        THEN [OauthBlank(ss, e) EXCEPT !.oauth = "raised"]
        ELSE IF "request_token" \in faults
        THEN [OauthBlank(ss, e) EXCEPT !.requested = TRUE, !.oauth = "raised"]
        ELSE IF click # "submit" THEN shown
        ELSE IF verification_code = <<>>
        THEN [shown EXCEPT !.msgs = {"Please enter a valid verification code."}]
        ELSE IF AccessTokenGranted(e1, req, faults)
        THEN [shown EXCEPT !.exchange = Some(req), !.oauth = "session",
                           !.msgs = {AuthSuccessMsg}]
        ELSE [shown EXCEPT !.exchange = Some(req), !.oauth = "raised"]

\* The last run was one of an E*TRADE page and got as far as its
\* 'Submit Verification Code' button.
SubmitRendered(page) ==
    ui.click \in EtradeClicks /\ ui.page = page /\ ui.link # None

\* The last run rendered the "Select Option" selectbox (and, its option
\* being "Market Quotes", the 'Get Quote' button).
OptionsRendered ==
    ui.click \in EtradeClicks /\ ui.page = "etrade_stocks" /\ ui.oauth = "session"

\* One run of etrade_stocks_page. The selectbox is rendered only in a run
\* that has a session, so a run reads the option its own interaction
\* selected and the first option otherwise.
etrade_stocks_page(click, verification_code, faults) ==
    /\ click = "submit" => SubmitRendered("etrade_stocks")
    /\ click \in {"get_quote", "portfolio", "place_order"} => OptionsRendered
    /\ click = "get_quote" => ui.option = "Market Quotes"
    /\ NeedsRequestToken(session_state) => etrade.issued < MaxTokens
    /\ LET r == etrade_stocks_oauth(session_state, etrade, click,
                                    verification_code, faults)
           option == IF click = "portfolio" THEN "Portfolio"
                     ELSE IF click = "place_order" THEN "Place Order"
                     ELSE "Market Quotes"
           reached == IF r.oauth # "session" THEN None
                      ELSE IF option = "Market Quotes"
                      THEN (IF click = "get_quote" THEN Some("quotes") ELSE None)
                      ELSE IF option = "Portfolio" THEN Some("portfolio")
                      ELSE Some("account_list")
       IN  /\ session_state' = r.session_state
           /\ etrade' = r.etrade
           /\ ui' = [click |-> click, page |-> "etrade_stocks",
                     verification_code |-> verification_code,
                     requested |-> r.requested, link |-> r.link,
                     exchange |-> r.exchange, oauth |-> r.oauth,
                     msgs |-> r.msgs \cup (IF r.oauth = "none"
                                           THEN {CompleteAuthMsg} ELSE {}),
                     option |-> option, reached |-> reached]
    /\ UNCHANGED <<health_calorie_intake, intake_id_seq, health_meal_details,
                   health_weight_loss_goal, today, view_option, other_session,
                   stocks, stocks_id_seq>>

\* One run of a script that calls the oauth() of test_ruth.py or of
\* etrade_python_client.py.
RauthRun(page, click, verification_code, faults) ==
    /\ click = "submit" => SubmitRendered(page)
    /\ etrade.issued < MaxTokens
    /\ LET r == IF page = "test_ruth"
                THEN test_ruth_oauth(session_state, etrade, click,
                                     verification_code, faults)
                ELSE etrade_python_client_oauth(session_state, etrade, click,
                                                verification_code, faults)
       IN  /\ session_state' = r.session_state
           /\ etrade' = r.etrade
           /\ ui' = [click |-> click, page |-> page,
                     verification_code |-> verification_code,
                     requested |-> r.requested, link |-> r.link,
                     exchange |-> r.exchange, oauth |-> r.oauth,
                     msgs |-> r.msgs, option |-> "Market Quotes",
                     reached |-> None]
    /\ UNCHANGED <<health_calorie_intake, intake_id_seq, health_meal_details,
                   health_weight_loss_goal, today, view_option, other_session,
                   stocks, stocks_id_seq>>

\* The user follows the authorization link of the last run, logs in at
\* E*TRADE and is shown the verification code of the link's token.
UserAuthorizes ==
    /\ ui.click \in EtradeClicks
    /\ ui.link # None
    /\ etrade.followed # ui.link
    /\ etrade' = [etrade EXCEPT !.authorized = @ \cup {ui.link[1]},
                                !.followed = ui.link]
    /\ UNCHANGED <<health_calorie_intake, intake_id_seq, health_meal_details,
                   health_weight_loss_goal, today, view_option, ui, other_session,
                   stocks, stocks_id_seq, session_state>>

\* The user opens the page in a new browser session (a reload, a new tab):
\* Streamlit gives it an empty st.session_state.
NewBrowserSession ==
    /\ ui.click \in EtradeClicks
    /\ etrade.issued < MaxTokens
    /\ session_state' = << >>
    /\ etrade' = [etrade EXCEPT !.session_tokens = {}]
    /\ ui' = BlankUi("start")
    /\ UNCHANGED <<health_calorie_intake, intake_id_seq, health_meal_details,
                   health_weight_loss_goal, today, view_option, other_session,
                   stocks, stocks_id_seq>>

\* The process starts with or without CONSUMER_KEY and CONSUMER_SECRET.
InitEtrade ==
    /\ health_calorie_intake = {}
    /\ intake_id_seq = 0
    /\ health_meal_details = {}
    /\ health_weight_loss_goal = <<>>
    /\ today = FirstDate + 7
    /\ view_option = "Today"
    /\ other_session = None
    /\ stocks = {}
    /\ stocks_id_seq = 0
    /\ session_state = <<>>
    /\ \E configured \in BOOLEAN :
           etrade = [configured |-> configured, issued |-> 0,
                     session_tokens |-> {}, authorized |-> {}, followed |-> None]
    /\ ui = BlankUi("start")

RunEtradeStocks ==
    \E click \in EtradeClicks, faults \in OauthFaultSets :
        \E verification_code \in VerificationTexts(etrade) :
            etrade_stocks_page(click, verification_code, faults)

NextEtrade == RunEtradeStocks \/ UserAuthorizes \/ NewBrowserSession

SpecEtrade == InitEtrade /\ [][NextEtrade]_vars

RunTestRuth ==
    \E click \in {"none", "submit"}, faults \in OauthFaultSets :
        \E verification_code \in VerificationTexts(etrade) :
            RauthRun("test_ruth", click, verification_code, faults)

RunEtradePythonClient ==
    \E click \in {"none", "submit"}, faults \in OauthFaultSets :
        \E verification_code \in VerificationTexts(etrade) :
            RauthRun("etrade_python_client", click, verification_code, faults)

NextRauth == RunTestRuth \/ RunEtradePythonClient \/ UserAuthorizes

SpecRauth == InitEtrade /\ [][NextRauth]_vars

\* The last run was one of etrade_stocks_page.
EtradeStocksRan == ui.click \in EtradeClicks /\ ui.page = "etrade_stocks"

\* The access-token request is made only with a stored request token, on a
\* click of 'Submit Verification Code' and with a code that is non-empty
\* after sanitising; a session is returned only when that request succeeded.
HandshakeInOrder ==
    EtradeStocksRan =>
        /\ ui.exchange # None =>
               /\ "request_token" \in DOMAIN session_state
               /\ ui.exchange[1].token = session_state.request_token
               /\ ui.click = "submit"
               /\ ui.exchange[1].verifier = Sanitize(ui.verification_code)
               /\ ui.exchange[1].verifier # << >>
        /\ ui.oauth = "session" =>
               /\ ui.exchange # None
               /\ AccessTokenGranted(etrade, ui.exchange[1], {})

\* C26: in etrade_stocks.oauth the access-token request is issued only after
\* a request token was obtained and the user submitted a verification code
\* that is non-empty after removing non-alphanumeric characters, a session is
\* returned only after the access-token request succeeded, and on every
\* other path (missing consumer key/secret, no click, empty code, request
\* failure) oauth returns (None, None).
C26_HandshakeOrNone ==
    /\ HandshakeInOrder
    /\ EtradeStocksRan => ui.oauth \in {"session", "none"}

\* C27: in etrade_stocks.oauth a browser session is issued at most one
\* request token; every run displays the link of the token stored in
\* st.session_state, and the access-token exchange is signed with that token,
\* which is the token of the link the user followed in this session.
C27_RequestTokenOncePerSession ==
    /\ Cardinality(etrade.session_tokens) <= 1
    /\ (EtradeStocksRan /\ ui.link # None) =>
           /\ ui.link[1] \in etrade.session_tokens
           /\ session_state.request_token = ui.link[1]
    /\ (EtradeStocksRan /\ ui.exchange # None) =>
           /\ ui.exchange[1].token \in etrade.session_tokens
           /\ (etrade.followed # None /\ etrade.followed[1] \in etrade.session_tokens)
                  => ui.exchange[1].token = etrade.followed[1]

\* A run that fetched no token exchanges the stored one, whose link the user
\* followed, with the code pasted with a blank and a dash, and gets a session.
C27_Witness ==
    /\ EtradeStocksRan
    /\ ui.click = "submit"
    /\ ~ui.requested
    /\ ui.exchange # None
    /\ etrade.followed = Some(ui.exchange[1].token)
    /\ ui.verification_code = <<" ">> \o Verifier(ui.exchange[1].token) \o <<"-">>
    /\ ui.oauth = "session"

\* C28: in test_ruth.oauth and etrade_python_client.oauth the access-token
\* exchange of the run in which 'Submit Verification Code' is clicked uses
\* the request token of the authorization link the user followed to obtain
\* the verification code.
C28_RauthExchangesFollowedToken ==
    (/\ ui.click = "submit"
     /\ ui.page \in {"test_ruth", "etrade_python_client"}
     /\ ui.exchange # None
     /\ etrade.followed # None)
        => ui.exchange[1].token = etrade.followed[1]

\* A run that follows one in which oauth returned a session, triggered by
\* 'Get Quote' or by selecting 'Portfolio'.
C29_Step ==
    (OptionsRendered /\ ui'.click \in {"get_quote", "portfolio"}) =>
        /\ ui'.oauth = "session"
        /\ ui'.reached \in {Some("quotes"), Some("portfolio")}
        /\ CompleteAuthMsg \notin ui'.msgs

\* C29: once etrade_stocks.oauth has returned a session in one run, a
\* following run triggered by 'Get Quote' or by selecting 'Portfolio' still
\* has a session and reaches the quote or portfolio request instead of
\* showing "Please complete authentication first.".
C29_SessionKept == [][C29_Step]_vars

(***************************************************************************)
(* Stock management. A date of the form is a record [year, month, day]; a  *)
(* price entered in the form is held in thousandths, a NUMERIC(10, 2)      *)
(* column in hundredths.                                                   *)
(***************************************************************************)
\* Values the SERIAL sequence of stocks.id may reach in a checked run.
MaxStockId == 3

LowerLetters ==
    <<"a", "b", "c", "d", "e", "f", "g", "h", "i", "j", "k", "l", "m",
      "n", "o", "p", "q", "r", "s", "t", "u", "v", "w", "x", "y", "z">>

UpperLetters ==
    <<"A", "B", "C", "D", "E", "F", "G", "H", "I", "J", "K", "L", "M",
      "N", "O", "P", "Q", "R", "S", "T", "U", "V", "W", "X", "Y", "Z">>

\* str.upper()
upper(text) ==
    [i \in 1..Len(text) |->
        IF \E k \in 1..26 : LowerLetters[k] = text[i]
        THEN UpperLetters[CHOOSE k \in 1..26 : LowerLetters[k] = text[i]]
        ELSE text[i]]

Digits == <<"0", "1", "2", "3", "4", "5", "6", "7", "8", "9">>

DigitValue(c) == (CHOOSE k \in 1..10 : Digits[k] = c) - 1

\* date.strftime('%Y-%m-%d')
strftime(d) ==
    <<Digits[((d.year \div 1000) % 10) + 1], Digits[((d.year \div 100) % 10) + 1],
      Digits[((d.year \div 10) % 10) + 1], Digits[(d.year % 10) + 1], "-",
      Digits[((d.month \div 10) % 10) + 1], Digits[(d.month % 10) + 1], "-",
      Digits[((d.day \div 10) % 10) + 1], Digits[(d.day % 10) + 1]>>

\* The DATE column reading the 'YYYY-MM-DD' parameter.
DateColumn(text) ==
    [year |-> 1000 * DigitValue(text[1]) + 100 * DigitValue(text[2])
                  + 10 * DigitValue(text[3]) + DigitValue(text[4]),
     month |-> 10 * DigitValue(text[6]) + DigitValue(text[7]),
     day |-> 10 * DigitValue(text[9]) + DigitValue(text[10])]

\* A NUMERIC(10, 2) column rounding the non-negative value it is given.
Numeric2(thousandths) == (thousandths + 5) \div 10

\* Forms of 'Add Stock' within the widgets' limits (quantity >= 1,
\* purchase_price >= 0.01, sold_price >= 0.0, symbol of up to 10 characters).
StockInputs ==
    {[symbol |-> <<"a", "b">>, name |-> "Alpha", quantity |-> 1,
      date_purchased |-> [year |-> 2024, month |-> 6, day |-> 3],
      purchase_price |-> 10, date_sold |-> None, sold_price |-> 0,
      comments |-> "", source |-> ""],
     [symbol |-> <<"A", "B">>, name |-> "Alpha Beta", quantity |-> 5,
      date_purchased |-> [year |-> 2023, month |-> 12, day |-> 31],
      purchase_price |-> 1005,
      date_sold |-> Some([year |-> 2024, month |-> 6, day |-> 3]),
      sold_price |-> 2500, comments |-> "sold", source |-> "broker"],
     [symbol |-> <<"C">>, name |-> "", quantity |-> 2,
      date_purchased |-> [year |-> 2024, month |-> 6, day |-> 10],
      purchase_price |-> 12340, date_sold |-> None, sold_price |-> 0,
      comments |-> "", source |-> "tip"],
     [symbol |-> << >>, name |-> "Nameless", quantity |-> 1,
      date_purchased |-> [year |-> 2024, month |-> 6, day |-> 10],
      purchase_price |-> 10, date_sold |-> None, sold_price |-> 0,
      comments |-> "", source |-> ""]}

StockFaultSets == {{}, {"connect"}, {"create"}, {"insert"}}

SymbolRequiredMsg == "Symbol is required."
AddedMsg == "Added/Updated to your stocks!"
StockErrorMsg == "Error adding stock to database"
StockClicks == {"view_stocks", "add_stock_form", "add_stock"}

\* Mutant: a plain INSERT, without the ON CONFLICT clause.
add_stock_to_db_plain(rows, seq, user_id, symbol, name, quantity, date_purchased, purchase_price, date_sold, sold_price, comments, source, dberror) ==
    IF dberror
    THEN [stocks |-> rows, seq |-> seq, ret |-> FALSE]
    ELSE [stocks |-> rows \cup
                     {[id |-> seq + 1, user_id |-> user_id, symbol |-> symbol,
                       name |-> name, quantity |-> quantity,
                       date_purchased |-> IF date_purchased = None THEN None
                                          ELSE Some(DateColumn(date_purchased[1])),
                       date_sold |-> IF date_sold = None THEN None
                                     ELSE Some(DateColumn(date_sold[1])),
                       purchase_price |-> Numeric2(purchase_price),
                       sold_price |-> IF sold_price = None THEN None
                                      ELSE Some(Numeric2(sold_price[1])),
                       source |-> source, comments |-> comments]},
          seq |-> seq + 1, ret |-> TRUE]

\* INSERT ... ON CONFLICT (user_id, symbol) DO UPDATE SET ...: the row in
\* conflict keeps its id, user_id and symbol; the sequence value drawn for
\* the proposed row is used up either way.
add_stock_to_db(rows, seq, user_id, symbol, name, quantity, date_purchased, purchase_price, date_sold, sold_price, comments, source, dberror) ==
    LET proposed == [id |-> seq + 1, user_id |-> user_id, symbol |-> symbol,
                     name |-> name, quantity |-> quantity,
                     date_purchased |-> IF date_purchased = None THEN None
                                        ELSE Some(DateColumn(date_purchased[1])),
                     date_sold |-> IF date_sold = None THEN None
                                   ELSE Some(DateColumn(date_sold[1])),
                     purchase_price |-> Numeric2(purchase_price),
                     sold_price |-> IF sold_price = None THEN None
                                    ELSE Some(Numeric2(sold_price[1])),
                     source |-> source, comments |-> comments]
        conflict == {r \in rows : r.user_id = user_id /\ r.symbol = symbol}
    IN  IF dberror
        THEN [stocks |-> rows, seq |-> seq, ret |-> FALSE]
        ELSE IF conflict = {}
        THEN [stocks |-> rows \cup {proposed}, seq |-> seq + 1, ret |-> TRUE]
        ELSE [stocks |-> (rows \ conflict)
                             \cup {[proposed EXCEPT !.id = r.id] : r \in conflict},
              seq |-> seq + 1, ret |-> TRUE]

\* SELECT * FROM stocks WHERE user_id = :user_id
get_user_stocks(rows, user_id) == {r \in rows : r.user_id = user_id}

StockUi(click) ==
    [click |-> click, msgs |-> {}, errors |-> {}, submitted |-> None,
     before |-> {}, df |-> None, form |-> FALSE]

\* The submit branch of add_stock_page.
add_stock_page(u, in, user_id, faults) ==
    LET symbol == upper(in.symbol)
        date_purchased_str == Some(strftime(in.date_purchased))
        date_sold_str == IF in.date_sold = None THEN None
                         ELSE Some(strftime(in.date_sold[1]))
        sold_price_value == IF in.sold_price > 0 THEN Some(in.sold_price) ELSE None
        r == add_stock_to_db(stocks, stocks_id_seq, user_id, symbol, in.name,
                             in.quantity, date_purchased_str, in.purchase_price,
                             date_sold_str, sold_price_value, in.comments,
                             in.source, "insert" \in faults)
        before == {x \in stocks : x.user_id = user_id /\ x.symbol = symbol}
    IN  IF symbol = << >>
        THEN /\ ui' = [u EXCEPT !.msgs = {SymbolRequiredMsg},
                                !.submitted = Some(in)]
             /\ UNCHANGED <<stocks, stocks_id_seq>>
        ELSE /\ stocks_id_seq < MaxStockId
             /\ stocks' = r.stocks
             /\ stocks_id_seq' = r.seq
             /\ ui' = [u EXCEPT !.submitted = Some(in), !.before = before,
                                !.msgs = IF r.ret THEN {AddedMsg}
                                         ELSE {StockErrorMsg},
                                !.errors = IF r.ret THEN {} ELSE {"insert"}]

\* One run of app.py with "Stock Management" selected: the connection, the
\* table, then the stock list or the form of 'Add Stock'.
stock_management_page(click, in, faults) ==
    /\ click = "add_stock" => (ui.click \in StockClicks /\ ui.form)
    /\ IF "connect" \in faults
       THEN /\ ui' = [StockUi(click) EXCEPT !.msgs = {CouldNotConnect},
                                            !.errors = {"connect"}]
            /\ UNCHANGED <<stocks, stocks_id_seq>>
       ELSE IF "create" \in faults
       THEN /\ ui' = [StockUi(click) EXCEPT !.msgs = {"Error creating database table"},
                                            !.errors = {"create"}]
            /\ UNCHANGED <<stocks, stocks_id_seq>>
       ELSE IF click = "view_stocks"
       THEN /\ ui' = [StockUi(click) EXCEPT !.df = Some(get_user_stocks(stocks, 1))]
            /\ UNCHANGED <<stocks, stocks_id_seq>>
       ELSE IF click = "add_stock_form"
       THEN /\ ui' = [StockUi(click) EXCEPT !.form = TRUE]
            /\ UNCHANGED <<stocks, stocks_id_seq>>
       ELSE add_stock_page([StockUi(click) EXCEPT !.form = TRUE], in, 1, faults)
    /\ UNCHANGED <<health_calorie_intake, intake_id_seq, health_meal_details,
                   health_weight_loss_goal, today, view_option, other_session,
                   session_state, etrade>>

RunStockManagement ==
    \E click \in StockClicks, in \in StockInputs, faults \in StockFaultSets :
        stock_management_page(click, in, faults)

NextStocks == RunStockManagement

SpecStocks == Init /\ [][NextStocks]_vars

\* The row a submitted form leaves in the table.
StoredStock(in, id) ==
    [id |-> id, user_id |-> 1, symbol |-> upper(in.symbol), name |-> in.name,
     quantity |-> in.quantity, date_purchased |-> Some(in.date_purchased),
     date_sold |-> in.date_sold,
     purchase_price |-> Numeric2(in.purchase_price),
     sold_price |-> IF in.sold_price > 0 THEN Some(Numeric2(in.sold_price))
                    ELSE None,
     source |-> in.source, comments |-> in.comments]

C30_Step ==
    /\ \A r, q \in stocks' :
           (r.user_id = q.user_id /\ r.symbol = q.symbol) => r = q
    /\ (ui'.click = "add_stock" /\ ui'.submitted # None) =>
           LET in == ui'.submitted[1]
               held == {r \in stocks : r.user_id = 1 /\ r.symbol = upper(in.symbol)}
           IN  IF in.symbol = << >>
               THEN /\ stocks' = stocks
                    /\ ui'.msgs = {SymbolRequiredMsg}
               ELSE ui'.errors = {} =>
                        /\ \E id \in 1..stocks_id_seq' :
                               /\ stocks' = (stocks \ held) \cup {StoredStock(in, id)}
                               /\ \A r \in held : r.id = id
                        /\ ui'.msgs = {AddedMsg}

\* C30: after any sequence of 'Add Stock' submissions the stocks table holds
\* at most one row per (user_id, symbol); a submission for a symbol the user
\* already holds replaces that row's quantity, dates, prices, name, comments
\* and source by the submitted values and adds no row, and a submission with
\* an empty symbol writes nothing and shows "Symbol is required.".
C30_OneRowPerSymbol == [][C30_Step]_vars

\* The symbol 'ab' submitted for the held 'AB': the row of id 1 that held
\* quantity 5 and a sale now holds the submitted quantity 1 and no sale.
C30_Witness ==
    /\ ui.click = "add_stock"
    /\ ui.errors = {}
    /\ ui.submitted # None
    /\ ui.submitted[1].symbol = <<"a", "b">>
    /\ \E r \in ui.before :
           r.id = 1 /\ r.quantity = 5 /\ r.sold_price = Some(2500 \div 10)
    /\ \E r \in stocks :
           /\ r = StoredStock(ui.submitted[1], 1)
           /\ r.symbol = <<"A", "B">>
           /\ r.quantity = 1
           /\ r.sold_price = None
    /\ Cardinality({r \in stocks : r.symbol = <<"A", "B">>}) = 1

====
